---- MODULE Spec2Model ----
(***************************************************************************)
(* A model of server/webhook.go of bytebase: the push-event webhook        *)
(* handlers (GitLab and GitHub), the commit deduplicator, the database     *)
(* resolver and the issue/task reconciler.                                 *)
(*                                                                         *)
(* Strings whose structure matters (file paths, templates, refs) are       *)
(* sequences of tokens; each token stands for a run of characters of the   *)
(* Go string, so that prefix tests, trims, joins and pattern matches are   *)
(* computed on the sequence as the code computes them on the string.       *)
(* Opaque strings (contents, secrets, versions once extracted) are TLA+    *)
(* strings or token sequences compared with =, which is Go's ==.           *)
(***************************************************************************)
EXTENDS Integers, Sequences, FiniteSets, TLC

VARIABLES
    commitList,        \* pushEvent.CommitList of the GitLab request being handled
    distinctFileList,  \* the list dedupMigrationFilesFromCommitList builds
    pc,                \* position of the flow under study
    tasks,             \* the store's task rows (ID = index)
    issues,            \* the store's issue rows (ID = index)
    activities,        \* the store's activity rows, in creation order
    last               \* the last call or request: its inputs, the store before it, its result

storeVars == <<tasks, issues, activities>>

dedupVars == <<commitList, distinctFileList>>

vars == <<commitList, distinctFileList, pc, tasks, issues, activities, last>>

(***************************************************************************)
(* Bounds                                                                  *)
(***************************************************************************)
MaxCommits == 2

\* Eligible tasks one database holds for one schema version in an initial store.
MaxEligibleTasks == 2

\* The most tokens put before, and after, a path given to parseSchemaFileInfo.
MaxExtra == 1

(***************************************************************************)
(* Generic helpers                                                         *)
(***************************************************************************)
Min(S) == CHOOSE x \in S : \A y \in S : x <= y

Max(S) == CHOOSE x \in S : \A y \in S : y <= x

SeqsUpTo(S, n) == UNION {[1..k -> S] : k \in 0..n}

(***************************************************************************)
(* Strings as token sequences: package strings, path and common            *)
(***************************************************************************)
\* strings.HasPrefix
HasPrefix(s, prefix) == Len(prefix) <= Len(s) /\ SubSeq(s, 1, Len(prefix)) = prefix

\* strings.TrimPrefix
TrimPrefix(s, prefix) ==
    IF HasPrefix(s, prefix) THEN SubSeq(s, Len(prefix) + 1, Len(s)) ELSE s

\* path.Join of two elements: empty elements are dropped, the others are joined
\* with "/" whatever the operating system.
PathJoin(a, b) ==
    IF a = <<>> THEN b ELSE IF b = <<>> THEN a ELSE a \o <<"/">> \o b

\* common.EscapeForLogging: line breaks are removed.
EscapeForLogging(s) == SelectSeq(s, LAMBDA tok : tok \notin {"\n", "\r"})

\* strings.ToLower on the tokens that occur in names of environments.
ToLower(s) ==
    [i \in DOMAIN s |->
        CASE s[i] = "Prod" -> "prod"
          [] s[i] = "PROD" -> "prod"
          [] s[i] = "Dev" -> "dev"
          [] OTHER -> s[i]]

\* strings.EqualFold
EqualFold(s, t) == ToLower(s) = ToLower(t)

(***************************************************************************)
(* Path templates and the regular expressions built from them              *)
(*                                                                         *)
(* A compiled expression is a sequence of elements: a literal token, or    *)
(* the named group (?P<NAME>[a-zA-Z0-9+-=/_#?!$. ]+).                       *)
(***************************************************************************)
Placeholder(name) == "{{" \o name \o "}}"

\* Tokens holding a character outside the class [a-zA-Z0-9+-=/_#?!$. ]
\* (the range +-= covers , - . / the digits : ; < and =).
OutsideClassTokens == {"\n", "\r", "@", "~", "(", ")", "{{ENV_NAME}}", "{{DB_NAME}}",
                       "{{VERSION}}", "{{TYPE}}", "{{DESCRIPTION}}"}

InClass(tok) == tok \notin OutsideClassTokens

\* strings.ReplaceAll(template, ".", `\.`) followed by the replacement of each
\* placeholder of `names` by its named group: the elements of the expression.
TemplateRegex(template, names) ==
    [i \in DOMAIN template |->
        IF \E n \in names : template[i] = Placeholder(n)
        THEN [kind |-> "group",
              name |-> CHOOSE n \in names : template[i] = Placeholder(n),
              tok |-> ""]
        ELSE [kind |-> "lit", name |-> "", tok |-> template[i]]]

\* path.Join(baseDirectory, regex) on the expression's elements.
JoinRegex(baseDirectory, regex) ==
    LET base == [i \in DOMAIN baseDirectory |->
                    [kind |-> "lit", name |-> "", tok |-> baseDirectory[i]]]
    IN  IF base = <<>> THEN regex
        ELSE IF regex = <<>> THEN base
        ELSE base \o <<[kind |-> "lit", name |-> "", tok |-> "/"]>> \o regex

\* The number of consecutive class tokens of s from index i on.
RECURSIVE ClassRun(_, _)
ClassRun(s, i) == IF i <= Len(s) /\ InClass(s[i]) THEN 1 + ClassRun(s, i + 1) ELSE 0

\* The match of the whole expression `re` that starts at index i of s and that a
\* backtracking matcher finds first: each group is greedy, and takes the most
\* tokens with which the rest of the expression still matches.
RECURSIVE MatchAt(_, _, _)
MatchAt(re, s, i) ==
    IF re = <<>> THEN [ok |-> TRUE, caps |-> <<>>]
    ELSE LET e == Head(re)
         IN  IF e.kind = "lit"
             THEN IF i <= Len(s) /\ s[i] = e.tok
                  THEN MatchAt(Tail(re), s, i + 1)
                  ELSE [ok |-> FALSE, caps |-> <<>>]
             ELSE LET good == {n \in 1..ClassRun(s, i) : MatchAt(Tail(re), s, i + n).ok}
                  IN  IF good = {} THEN [ok |-> FALSE, caps |-> <<>>]
                      ELSE LET n == Max(good)
                           IN  [ok |-> TRUE,
                                caps |-> <<[name |-> e.name, val |-> SubSeq(s, i, i + n - 1)]>>
                                         \o MatchAt(Tail(re), s, i + n).caps]

\* regexp.FindStringSubmatch: the leftmost match; the expression is not anchored,
\* neither at the start nor at the end of s.
FindStringSubmatch(re, s) ==
    LET starts == {i \in 1..(Len(s) + 1) : MatchAt(re, s, i).ok}
    IN  IF starts = {} THEN [ok |-> FALSE, caps |-> <<>>] ELSE MatchAt(re, s, Min(starts))

\* The text a group captured, or the empty string (a Go map's zero value).
Captured(caps, name) ==
    IF \E k \in DOMAIN caps : caps[k].name = name
    THEN caps[CHOOSE k \in DOMAIN caps : caps[k].name = name].val
    ELSE <<>>

\* regexp.Compile fails on an unbalanced parenthesis.
CompileFails(regex) ==
    \E i \in DOMAIN regex : regex[i].kind = "lit" /\ regex[i].tok \in {"(", ")"}

\* parseSchemaFileInfo: nil (no match), the captured ENV_NAME and DB_NAME, or an error.
parseSchemaFileInfo(baseDirectory, schemaPathTemplate, file) ==
    LET none == [nil |-> TRUE, err |-> FALSE, ENV_NAME |-> <<>>, DB_NAME |-> <<>>]
        re == JoinRegex(baseDirectory,
                        TemplateRegex(schemaPathTemplate, {"ENV_NAME", "DB_NAME"}))
        info(match) ==
            IF ~match.ok THEN none
            ELSE [nil |-> FALSE, err |-> FALSE,
                  ENV_NAME |-> Captured(match.caps, "ENV_NAME"),
                  DB_NAME |-> Captured(match.caps, "DB_NAME")]
    IN  IF schemaPathTemplate = <<>> THEN none
        ELSE IF CompileFails(re) THEN [none EXCEPT !.err = TRUE]
        ELSE info(FindStringSubmatch(re, file))

(***************************************************************************)
(* plugin/db: MigrationInfo and ParseMigrationInfo                         *)
(***************************************************************************)
Migrate == "MIGRATE"

Data == "DATA"

VCS == "VCS"

\* A nil *db.MigrationInfo.
NilMigrationInfo ==
    [nil |-> TRUE, Version |-> <<>>, Namespace |-> <<>>, Database |-> <<>>,
     Environment |-> <<>>, Source |-> VCS, Type |-> Migrate, Description |-> <<>>]

\* db.ParseMigrationInfo(file, filePathTemplate): the file path is matched against
\* the template; VERSION and DB_NAME are required, TYPE is "migrate" or "data" and
\* defaults to MIGRATE, and a missing DESCRIPTION is derived from the type.
ParseMigrationInfo(file, filePathTemplate) ==
    LET re == TemplateRegex(filePathTemplate,
                            {"ENV_NAME", "VERSION", "DB_NAME", "TYPE", "DESCRIPTION"})
        fail == [err |-> TRUE, info |-> NilMigrationInfo]
        parsed(version, dbName, envName, type, desc) ==
            IF type \notin {<<>>, <<"data">>, <<"migrate">>} THEN fail
            ELSE IF version = <<>> \/ dbName = <<>> THEN fail
            ELSE [err |-> FALSE,
                  info |->
                     [nil |-> FALSE, Version |-> version, Namespace |-> dbName,
                      Database |-> dbName, Environment |-> envName, Source |-> VCS,
                      Type |-> IF type = <<"data">> THEN Data ELSE Migrate,
                      Description |->
                          IF desc # <<>> THEN desc
                          ELSE IF type = <<"data">>
                               THEN <<"Create ">> \o dbName \o <<" data change">>
                               ELSE <<"Create ">> \o dbName \o <<" schema migration">>]]
        matched(match) ==
            IF ~match.ok THEN fail
            ELSE parsed(Captured(match.caps, "VERSION"), Captured(match.caps, "DB_NAME"),
                        Captured(match.caps, "ENV_NAME"), Captured(match.caps, "TYPE"),
                        Captured(match.caps, "DESCRIPTION"))
    IN  IF CompileFails(re) THEN fail ELSE matched(FindStringSubmatch(re, file))

(***************************************************************************)
(* File paths, templates and contents used as inputs                       *)
(***************************************************************************)
FileMigrateV1 == <<"bytebase", "/", "orders", "__", "v1", "__", "migrate", ".", "sql">>

FileDataV1 == <<"bytebase", "/", "orders", "__", "v1", "__", "data", ".", "sql">>

FileSchema == <<"bytebase", "/", "orders", "__", "LATEST", ".", "sql">>

FileUsersV1 == <<"bytebase", "/", "users", "__", "v1", "__", "migrate", ".", "sql">>

FileOutside == <<"docs", "/", "orders", "__", "v1", "__", "migrate", ".", "sql">>

FileReadme == <<"bytebase", "/", "README">>

\* Files of a directory next to the base directory, whose name starts with the
\* name of the base directory.
FileSibling == <<"bytebase", "-old", "/", "orders", "__", "v1", "__", "migrate", ".", "sql">>

FileSiblingSchema ==
    <<"bytebase", "-old", "/", "bytebase", "/", "orders", "__", "LATEST", ".", "sql">>

Files ==
    {FileMigrateV1, FileDataV1, FileSchema, FileUsersV1, FileOutside, FileReadme, FileSibling,
     FileSiblingSchema}

FilePathTemplate == <<"{{DB_NAME}}", "__", "{{VERSION}}", "__", "{{TYPE}}", ".", "sql">>

SchemaPathTemplate == <<"{{DB_NAME}}", "__", "LATEST", ".", "sql">>

Contents == {<<"ALTER TABLE t ADD a INT;">>, <<"ALTER TABLE t ADD b INT;">>}

(***************************************************************************)
(* time.Time, time.Parse(time.RFC3339, .) and Time.Before                  *)
(*                                                                         *)
(* An instant is an integer, ordered as the instants are.  The zero        *)
(* time.Time (January 1, year 1, 00:00 UTC), which time.Parse returns      *)
(* together with an error, is 0.  RFC 3339 allows the year 0000, so a      *)
(* well-formed timestamp can denote an instant before the zero Time.       *)
(***************************************************************************)
ZeroTime == 0

Timestamps ==
    {"0000-12-31T23:59:59Z", "2022-10-01T00:00:00Z", "2022-10-02T00:00:00Z", "not-a-time"}

ParseRFC3339(ts) ==
    CASE ts = "0000-12-31T23:59:59Z" -> [t |-> ZeroTime - 1, err |-> FALSE]
      [] ts = "2022-10-01T00:00:00Z" -> [t |-> ZeroTime + 1, err |-> FALSE]
      [] ts = "2022-10-02T00:00:00Z" -> [t |-> ZeroTime + 2, err |-> FALSE]
      [] OTHER -> [t |-> ZeroTime, err |-> TRUE]

Before(t, u) == t < u

(***************************************************************************)
(* fileItemType                                                            *)
(***************************************************************************)
fileItemTypeAdded == "added"

fileItemTypeModified == "modified"

(***************************************************************************)
(* dedupMigrationFilesFromCommitList                                       *)
(***************************************************************************)
\* Mutant: a later commit of a known path is appended instead of replacing the
\* entry, so the path gets a second entry.
addDistinctFile_AppendLater(list, commit, createdTime, fileName, itemType) ==
    LET item == [createdTime |-> createdTime, commit |-> commit,
                 fileName |-> fileName, itemType |-> itemType]
        same == {i \in DOMAIN list : list[i].fileName = fileName}
    IN  IF same # {} /\ ~Before(list[Min(same)].createdTime, createdTime)
        THEN list
        ELSE Append(list, item)

\* Mutant: a later commit of a known path removes the entry and appends the new
\* one, so the path moves to the end of the list.
addDistinctFile_MoveToEnd(list, commit, createdTime, fileName, itemType) ==
    LET item == [createdTime |-> createdTime, commit |-> commit,
                 fileName |-> fileName, itemType |-> itemType]
        same == {i \in DOMAIN list : list[i].fileName = fileName}
    IN  IF same # {}
        THEN LET i == Min(same)
             IN  IF Before(list[i].createdTime, createdTime)
                 THEN Append(SubSeq(list, 1, i - 1) \o SubSeq(list, i + 1, Len(list)), item)
                 ELSE list
        ELSE Append(list, item)

\* Mutant: the entry of a known path is never replaced, so the first commit
\* that lists the path wins.
addDistinctFile_KeepFirst(list, commit, createdTime, fileName, itemType) ==
    LET item == [createdTime |-> createdTime, commit |-> commit,
                 fileName |-> fileName, itemType |-> itemType]
        same == {i \in DOMAIN list : list[i].fileName = fileName}
    IN  IF same # {} THEN list ELSE Append(list, item)

\* The closure addDistinctFile of one commit: upsert of (fileName, itemType).
addDistinctFile(list, commit, createdTime, fileName, itemType) ==
    LET item == [createdTime |-> createdTime, commit |-> commit,
                 fileName |-> fileName, itemType |-> itemType]
        same == {i \in DOMAIN list : list[i].fileName = fileName}
    IN  IF same # {}
        THEN LET i == Min(same)
             IN  IF Before(list[i].createdTime, createdTime)
                 THEN [list EXCEPT ![i] = item]
                 ELSE list
        ELSE Append(list, item)

RECURSIVE addDistinctFiles(_, _, _, _, _)
\* One of the two range loops of a commit: addDistinctFile for each name in order.
addDistinctFiles(list, commit, createdTime, names, itemType) ==
    IF names = <<>> THEN list
    ELSE addDistinctFiles(
             addDistinctFile(list, commit, createdTime, Head(names), itemType),
             commit, createdTime, Tail(names), itemType)

\* The body of the loop over commitList for one commit.
dedupCommit(list, commit) ==
    LET createdTime == ParseRFC3339(commit.Timestamp).t
        afterAdded == addDistinctFiles(list, commit, createdTime,
                                       commit.AddedList, fileItemTypeAdded)
    IN  addDistinctFiles(afterAdded, commit, createdTime,
                         commit.ModifiedList, fileItemTypeModified)

RECURSIVE dedupFrom(_, _)
dedupFrom(list, commits) ==
    IF commits = <<>> THEN list
    ELSE dedupFrom(dedupCommit(list, Head(commits)), Tail(commits))

\* Mutant: the deduplicated list is returned latest path first.
dedupMigrationFilesFromCommitList_Reversed(commits) ==
    LET list == dedupFrom(<<>>, commits)
    IN  [k \in DOMAIN list |-> list[Len(list) + 1 - k]]

dedupMigrationFilesFromCommitList(commits) == dedupFrom(<<>>, commits)

(***************************************************************************)
(* Inputs of the deduplicator: commit lists, oldest first                  *)
(***************************************************************************)
PathLists == {<<>>, <<FileMigrateV1>>, <<FileDataV1>>, <<FileMigrateV1, FileDataV1>>}

CommitBodies == [Timestamp : Timestamps, AddedList : PathLists, ModifiedList : PathLists]

\* The list of n commits whose i-th commit has the body body[i].
CommitList(n, body) ==
    [i \in 1..n |->
        [ID |-> i, Timestamp |-> body[i].Timestamp, AuthorEmail |-> "dev@example.com",
         AddedList |-> body[i].AddedList, ModifiedList |-> body[i].ModifiedList]]

(***************************************************************************)
(* SpecDedup: the deduplicator applied to an arbitrary commit list         *)
(***************************************************************************)
InitDedup ==
    /\ \E n \in 0..MaxCommits :
          \E body \in [1..n -> CommitBodies] : commitList = CommitList(n, body)
    /\ distinctFileList = <<>>
    /\ pc = "dedup"
    /\ tasks = <<>>
    /\ issues = <<>>
    /\ activities = <<>>
    /\ last = [called |-> FALSE]

Dedup ==
    /\ pc = "dedup"
    /\ distinctFileList' = dedupMigrationFilesFromCommitList(commitList)
    /\ pc' = "deduped"
    /\ UNCHANGED <<commitList, storeVars, last>>

NextDedup == Dedup

SpecDedup == InitDedup /\ [][NextDedup]_vars

(***************************************************************************)
(* Reference notions for the deduplicator's claims, defined on the input   *)
(* alone (never through dedupMigrationFilesFromCommitList)                  *)
(***************************************************************************)
\* The (path, commit, kind) occurrences of one commit: added before modified.
CommitOccurrences(commit) ==
    [k \in 1..Len(commit.AddedList) |->
        [fileName |-> commit.AddedList[k], commit |-> commit, itemType |-> fileItemTypeAdded]]
    \o
    [k \in 1..Len(commit.ModifiedList) |->
        [fileName |-> commit.ModifiedList[k], commit |-> commit,
         itemType |-> fileItemTypeModified]]

RECURSIVE Occurrences(_)
\* All occurrences of a commit list in scan order.
Occurrences(commits) ==
    IF commits = <<>> THEN <<>>
    ELSE CommitOccurrences(Head(commits)) \o Occurrences(Tail(commits))

RECURSIVE SortedSeq(_)
SortedSeq(S) == IF S = {} THEN <<>> ELSE <<Min(S)>> \o SortedSeq(S \ {Min(S)})

\* The paths of a commit list in the order of their first occurrence.
FirstOccurrenceOrder(commits) ==
    LET occ == Occurrences(commits)
        first == {k \in DOMAIN occ : \A j \in 1..(k - 1) : occ[j].fileName # occ[k].fileName}
        at == SortedSeq(first)
    IN  [i \in DOMAIN at |-> occ[at[i]].fileName]

OccurringPaths(commits) ==
    LET occ == Occurrences(commits) IN {occ[k].fileName : k \in DOMAIN occ}

\* The commits (by ID, which is the position in the input) that list a path.
CommitsListing(commits, fileName) ==
    {i \in DOMAIN commits :
        \/ \E k \in DOMAIN commits[i].AddedList : commits[i].AddedList[k] = fileName
        \/ \E k \in DOMAIN commits[i].ModifiedList : commits[i].ModifiedList[k] = fileName}

FileNamesOf(list) == [i \in DOMAIN list |-> list[i].fileName]

(***************************************************************************)
(* Claims about the deduplicator (checked under SpecDedup)                 *)
(***************************************************************************)
\* C1: after dedupMigrationFilesFromCommitList, every path that occurs in some
\* commit's added or modified list has exactly one entry in the output: no path
\* is missing, no path that does not occur is present, and no two entries share
\* a fileName.
C1_EachPathExactlyOnce ==
    pc = "deduped" =>
        /\ {distinctFileList[i].fileName : i \in DOMAIN distinctFileList}
               = OccurringPaths(commitList)
        /\ \A i, j \in DOMAIN distinctFileList :
               distinctFileList[i].fileName = distinctFileList[j].fileName => i = j

\* C1 witness: a path listed by two commits, in an output of two entries.
C1_Witness ==
    /\ pc = "deduped"
    /\ Len(distinctFileList) = 2
    /\ \E i \in DOMAIN distinctFileList :
           Cardinality(CommitsListing(commitList, distinctFileList[i].fileName)) = 2

\* C2: the output lists the paths in the order of their first occurrence in the
\* scan of the commits (added before modified within a commit); a replacement by a
\* later commit leaves the entry where it was.
C2_FirstOccurrenceOrder ==
    pc = "deduped" => FileNamesOf(distinctFileList) = FirstOccurrenceOrder(commitList)

\* C2 witness: the first of two entries was replaced by the second commit, and
\* stayed first.
C2_Witness ==
    /\ pc = "deduped"
    /\ Len(distinctFileList) = 2
    /\ distinctFileList[1].commit.ID = 2
    /\ distinctFileList[2].commit.ID = 1

\* C3 (as claimed): the entry of a path carries, with its creation time, the commit
\* with the latest timestamp among the commits that list the path (a timestamp that
\* fails to parse counting as the zero time), the earliest such commit when several
\* share that timestamp, and a commit whose timestamp fails to parse never replaces
\* an existing entry: if it is the entry's commit, no earlier commit lists the path.
C3_LatestCommitWins ==
    pc = "deduped" =>
        \A i \in DOMAIN distinctFileList :
            LET e == distinctFileList[i]
                cands == CommitsListing(commitList, e.fileName)
                timeOf(c) == ParseRFC3339(commitList[c].Timestamp).t
            IN  /\ e.commit.ID \in cands
                /\ e.commit = commitList[e.commit.ID]
                /\ e.createdTime = timeOf(e.commit.ID)
                /\ \A c \in cands : timeOf(c) <= e.createdTime
                /\ \A c \in cands : timeOf(c) = e.createdTime => e.commit.ID <= c
                /\ ParseRFC3339(e.commit.Timestamp).err => e.commit.ID = Min(cands)

(***************************************************************************)
(* Package api: the constants the reconciler uses                          *)
(***************************************************************************)
TenantModeTenant == "TENANT"

TenantModeDisabled == "DISABLED"

ProjectSchemaChangeTypeDDL == "DDL"

ProjectSchemaChangeTypeSDL == "SDL"

TaskPendingApproval == "PENDING_APPROVAL"

TaskFailed == "FAILED"

TaskDone == "DONE"

TaskDatabaseSchemaUpdate == "bb.task.database.schema.update"

TaskDatabaseDataUpdate == "bb.task.database.data.update"

TaskDatabaseCreate == "bb.task.database.create"

IssueDatabaseSchemaUpdate == "bb.issue.database.schema.update"

IssueDatabaseDataUpdate == "bb.issue.database.data.update"

ActivityWarn == "WARN"

ActivityInfo == "INFO"

SystemBotID == 1

\* The principal the store holds for the committer's email.
CommitterPrincipalID == 101

(***************************************************************************)
(* The configuration the store holds: databases and repository bindings    *)
(***************************************************************************)
Database(id, projectID, name, environmentID, environmentName, engine, schema) ==
    [ID |-> id, ProjectID |-> projectID, Name |-> name,
     Instance |-> [EnvironmentID |-> environmentID,
                   Environment |-> [Name |-> environmentName],
                   Engine |-> engine],
     Schema |-> schema]

\* The database rows, in the order store.FindDatabase returns them.
Databases ==
    << Database(1, 1, <<"orders">>, 1, <<"dev">>, "POSTGRES", <<"ALTER TABLE t ADD a INT;">>),
       Database(2, 1, <<"orders">>, 2, <<"Prod">>, "POSTGRES", <<"CREATE TABLE t();">>),
       Database(3, 1, <<"users">>, 2, <<"Prod">>, "POSTGRES", <<"CREATE TABLE t();">>),
       Database(4, 1, <<"users">>, 2, <<"Prod">>, "POSTGRES", <<"CREATE TABLE t();">>),
       Database(5, 2, <<"orders">>, 1, <<"dev">>, "POSTGRES", <<"ALTER TABLE t ADD a INT;">>),
       Database(6, 2, <<"orders">>, 2, <<"Prod">>, "SQLITE", <<"CREATE TABLE t();">>),
       Database(7, 3, <<"orders">>, 1, <<"dev">>, "POSTGRES", <<"CREATE TABLE t();">>),
       Database(8, 4, <<"orders">>, 1, <<"dev">>, "POSTGRES", <<"CREATE TABLE t();">>) >>

DatabaseIDs == {Databases[i].ID : i \in DOMAIN Databases}

Repository(id, projectID, tenantMode, schemaChangeType, branchFilter, secret, externalID, hasVCS) ==
    [ID |-> id, ProjectID |-> projectID,
     Project |-> [TenantMode |-> tenantMode, SchemaChangeType |-> schemaChangeType],
     BaseDirectory |-> <<"bytebase">>,
     FilePathTemplate |-> FilePathTemplate,
     SchemaPathTemplate |-> SchemaPathTemplate,
     BranchFilter |-> branchFilter,
     WebhookSecretToken |-> secret,
     ExternalID |-> externalID,
     VCS |-> [nil |-> ~hasVCS, Type |-> "GITLAB_SELF_HOST"]]

\* A DDL project, an SDL project and a tenant-mode DDL project.
RepoDDL ==
    Repository(1, 1, TenantModeDisabled, ProjectSchemaChangeTypeDDL, <<"main">>, "secret-1",
               "100", TRUE)

RepoSDL ==
    Repository(2, 2, TenantModeDisabled, ProjectSchemaChangeTypeSDL, <<"main">>, "secret-1",
               "100", TRUE)

RepoTenant ==
    Repository(3, 3, TenantModeTenant, ProjectSchemaChangeTypeDDL, <<"main">>, "secret-1",
               "100", TRUE)

\* A DDL project with one database, bound to the branch release.
RepoRelease ==
    Repository(4, 4, TenantModeDisabled, ProjectSchemaChangeTypeDDL, <<"release">>, "secret-1",
               "100", TRUE)

Repositories == {RepoDDL, RepoSDL, RepoTenant, RepoRelease}

(***************************************************************************)
(* The reconciler's environment                                            *)
(*                                                                         *)
(* A reconciliation runs on a state st = [tasks, issues, activities,       *)
(* calls], the store's rows and the trace of the dependency calls made so  *)
(* far, and on its inputs in = [repo, pushEvent, file, fileType, content,  *)
(* fail, principal, feature]: content is what the VCS holds for the file,  *)
(* fail names the dependency call that fails (at most one per              *)
(* reconciliation; every failure but that of the principal lookup, of a    *)
(* schema diff and of the connection's Close ends the reconciliation),     *)
(* principal is the outcome of the committer lookup and feature is the     *)
(* multi-tenancy feature flag.                                             *)
(***************************************************************************)
NoFail == [op |-> "none", db |-> 0]

Fails(in, op, db) == in.fail = [op |-> op, db |-> db]

Call(st, op, db) == [st EXCEPT !.calls = Append(@, [op |-> op, db |-> db])]

\* store.FindDatabase by project and name.
FindDatabase(projectID, name) ==
    SelectSeq(Databases, LAMBDA d : d.ProjectID = projectID /\ d.Name = name)

\* The TaskFind of prepareIssueFromPushEventDDL: database, status list, type list
\* and payload->>'schemaVersion'.
TaskMatches(task, databaseID, version) ==
    /\ task.DatabaseID = databaseID
    /\ task.Status \in {TaskPendingApproval, TaskFailed}
    /\ task.Type \in {TaskDatabaseSchemaUpdate, TaskDatabaseDataUpdate}
    /\ task.Payload.SchemaVersion = version

\* store.FindTask
FindTask(taskRows, databaseID, version) ==
    SelectSeq(taskRows, LAMBDA t : TaskMatches(t, databaseID, version))

\* store.GetIssueByPipelineID
GetIssueByPipelineID(issueRows, pipelineID) ==
    issueRows[CHOOSE i \in DOMAIN issueRows : issueRows[i].PipelineID = pipelineID]

\* Server.patchTask with a TaskPatch that sets the statement.
patchTask(st, task, taskPatch) ==
    [st EXCEPT !.tasks[taskPatch.ID].Payload.Statement = taskPatch.Statement,
               !.tasks[taskPatch.ID].UpdaterID = taskPatch.UpdaterID]

\* ActivityManager.CreateActivity
CreateActivity(st, activityCreate) ==
    [st EXCEPT !.activities = Append(@, activityCreate)]

\* The tasks Server.createIssue creates for one MigrationDetail: one for the
\* detail's database, or one per database of the project with the detail's name.
TasksOfDetail(projectID, detail, issueType, pipelineID) ==
    LET targets == IF detail.DatabaseID # 0
                   THEN SelectSeq(Databases, LAMBDA d : d.ID = detail.DatabaseID)
                   ELSE FindDatabase(projectID, detail.DatabaseName)
    IN  [k \in DOMAIN targets |->
            [ID |-> 0, DatabaseID |-> targets[k].ID, PipelineID |-> pipelineID,
             Status |-> TaskPendingApproval,
             Type |-> IF issueType = IssueDatabaseDataUpdate
                      THEN TaskDatabaseDataUpdate ELSE TaskDatabaseSchemaUpdate,
             Payload |-> [Statement |-> detail.Statement,
                          SchemaVersion |-> detail.SchemaVersion],
             UpdaterID |-> SystemBotID]]

RECURSIVE TasksOfDetails(_, _, _, _)
TasksOfDetails(projectID, details, issueType, pipelineID) ==
    IF details = <<>> THEN <<>>
    ELSE TasksOfDetail(projectID, Head(details), issueType, pipelineID)
         \o TasksOfDetails(projectID, Tail(details), issueType, pipelineID)

\* Server.createIssue: the issue row with its pipeline, and the pipeline's tasks,
\* one per target database of each MigrationDetail, waiting for approval.
createIssue(st, issueCreate, creatorID) ==
    LET id == Len(st.issues) + 1
        issue == [ID |-> id, PipelineID |-> id, CreatorID |-> creatorID,
                  ProjectID |-> issueCreate.ProjectID, Name |-> issueCreate.Name,
                  Type |-> issueCreate.Type, Description |-> issueCreate.Description,
                  AssigneeID |-> issueCreate.AssigneeID,
                  CreateContext |-> issueCreate.CreateContext]
        new == TasksOfDetails(issueCreate.ProjectID, issueCreate.CreateContext.DetailList,
                              issueCreate.Type, id)
        numbered == [k \in DOMAIN new |-> [new[k] EXCEPT !.ID = Len(st.tasks) + k]]
    IN  [st |-> [st EXCEPT !.issues = Append(@, issue), !.tasks = @ \o numbered],
         issue |-> issue]

(***************************************************************************)
(* findProjectDatabases                                                    *)
(***************************************************************************)
\* Mutant: the databases are returned without the test that no two of them are
\* of the same environment.
findProjectDatabases_NoAmbiguityCheck(st, in, projectID, tenantMode, dbName, envName) ==
    LET st1 == Call(st, "FindDatabase", 0)
        foundDatabases == FindDatabase(projectID, dbName)
        filteredDatabases ==
            IF envName # <<>>
            THEN SelectSeq(foundDatabases,
                           LAMBDA d : EqualFold(d.Instance.Environment.Name, envName))
            ELSE foundDatabases
        result(err, dbs) == [st |-> st1, err |-> err, databases |-> dbs]
    IN  IF Fails(in, "FindDatabase", 0) THEN result("find database", <<>>)
        ELSE IF foundDatabases = <<>>
        THEN result("project does not have database", <<>>)
        ELSE IF tenantMode = TenantModeTenant
        THEN IF envName # <<>>
             THEN result("non-empty environment is not allowed for tenant mode project", <<>>)
             ELSE result("", foundDatabases)
        ELSE IF envName # <<>> /\ filteredDatabases = <<>>
        THEN result("project does not have database for environment", <<>>)
        ELSE result("", filteredDatabases)

findProjectDatabases(st, in, projectID, tenantMode, dbName, envName) ==
    LET st1 == Call(st, "FindDatabase", 0)
        foundDatabases == FindDatabase(projectID, dbName)
        filteredDatabases ==
            IF envName # <<>>
            THEN SelectSeq(foundDatabases,
                           LAMBDA d : EqualFold(d.Instance.Environment.Name, envName))
            ELSE foundDatabases
        result(err, dbs) == [st |-> st1, err |-> err, databases |-> dbs]
    IN  IF Fails(in, "FindDatabase", 0) THEN result("find database", <<>>)
        ELSE IF foundDatabases = <<>>
        THEN result("project does not have database", <<>>)
        ELSE IF tenantMode = TenantModeTenant
        THEN IF envName # <<>>
             THEN result("non-empty environment is not allowed for tenant mode project", <<>>)
             ELSE result("", foundDatabases)
        ELSE IF envName # <<>> /\ filteredDatabases = <<>>
        THEN result("project does not have database for environment", <<>>)
        ELSE IF \E i, j \in DOMAIN filteredDatabases :
                    /\ i < j
                    /\ filteredDatabases[i].Instance.EnvironmentID
                           = filteredDatabases[j].Instance.EnvironmentID
        THEN result("project has multiple databases for environment", <<>>)
        ELSE result("", filteredDatabases)

(***************************************************************************)
(* getIgnoredFileActivityCreate and readFileContent                        *)
(***************************************************************************)
\* The payload is marshalled when the activity is built: it holds the push event
\* as it is at that moment.
getIgnoredFileActivityCreate(projectID, pushEvent, file, err) ==
    [CreatorID |-> SystemBotID, ContainerID |-> projectID,
     Type |-> "bb.project.repository.push", Level |-> ActivityWarn,
     Comment |-> [text |-> "Ignored file", subject |-> file, err |-> err],
     Payload |-> [VCSPushEvent |-> pushEvent, IssueID |-> 0, IssueName |-> <<>>]]

readFileContent(st, in) ==
    LET st1 == Call(st, "ReadFileContent", 0)
    IN  IF Fails(in, "ReadFileContent", 0)
        THEN [st |-> st1, err |-> TRUE, content |-> <<>>]
        ELSE [st |-> st1, err |-> FALSE, content |-> in.content]

(***************************************************************************)
(* computeDatabaseSchemaDiff                                               *)
(***************************************************************************)
\* pg.SchemaDiff on two parsed schemas: empty when they are the same schema.
SchemaDiff(oldSchema, newSchema) ==
    IF oldSchema = newSchema THEN <<>>
    ELSE <<"-- from ">> \o oldSchema \o <<" to ">> \o newSchema

\* Mutant: driver.Close is called before the return of a computed diff only, not
\* deferred.
computeDatabaseSchemaDiff_CloseOnSuccess(st, in, database, newSchemaStr) ==
    LET id == database.ID
        st1 == Call(st, "getAdminDatabaseDriver", id)
        st2 == Call(st1, "Dump", id)
        st3 == Call(st2, "ParseOld", id)
        st4 == Call(st3, "ParseNew", id)
        st5 == Call(st4, "SchemaDiff", id)
        closed(s) == Call(s, "Close", id)
        failure(s, err) == [st |-> s, err |-> err, diff |-> <<>>]
    IN  IF Fails(in, "getAdminDatabaseDriver", id) THEN failure(st1, "get admin driver")
        ELSE IF Fails(in, "Dump", id) THEN failure(st2, "dump old schema")
        ELSE IF database.Instance.Engine \notin {"POSTGRES", "MYSQL"}
        THEN failure(st2, "unsupported database engine")
        ELSE IF Fails(in, "ParseOld", id) THEN failure(st3, "parse old schema")
        ELSE IF Fails(in, "ParseNew", id) THEN failure(st4, "parse new schema")
        ELSE IF Fails(in, "SchemaDiff", id) THEN failure(st5, "compute schema diff")
        ELSE [st |-> closed(st5), err |-> "",
              diff |-> SchemaDiff(database.Schema, newSchemaStr)]

\* The deferred driver.Close runs on every return that follows a successful
\* getAdminDatabaseDriver.
computeDatabaseSchemaDiff(st, in, database, newSchemaStr) ==
    LET id == database.ID
        st1 == Call(st, "getAdminDatabaseDriver", id)
        st2 == Call(st1, "Dump", id)
        st3 == Call(st2, "ParseOld", id)
        st4 == Call(st3, "ParseNew", id)
        st5 == Call(st4, "SchemaDiff", id)
        closed(s) == Call(s, "Close", id)
        failure(s, err) == [st |-> s, err |-> err, diff |-> <<>>]
    IN  IF Fails(in, "getAdminDatabaseDriver", id) THEN failure(st1, "get admin driver")
        ELSE IF Fails(in, "Dump", id) THEN failure(closed(st2), "dump old schema")
        ELSE IF database.Instance.Engine \notin {"POSTGRES", "MYSQL"}
        THEN failure(closed(st2), "unsupported database engine")
        ELSE IF Fails(in, "ParseOld", id) THEN failure(closed(st3), "parse old schema")
        ELSE IF Fails(in, "ParseNew", id) THEN failure(closed(st4), "parse new schema")
        ELSE IF Fails(in, "SchemaDiff", id) THEN failure(closed(st5), "compute schema diff")
        ELSE [st |-> closed(st5), err |-> "",
              diff |-> SchemaDiff(database.Schema, newSchemaStr)]

(***************************************************************************)
(* prepareIssueFromPushEventSDL                                            *)
(***************************************************************************)
\* common.DefaultMigrationVersion(): a version made from the current time.
DefaultMigrationVersion == <<"20221001000000">>

RECURSIVE Flatten(_)
Flatten(ss) == IF ss = <<>> THEN <<>> ELSE Head(ss) \o Flatten(Tail(ss))

\* strings.NewReplacer(old1, new1, ...).Replace(template)
Replace(template, values) ==
    Flatten([i \in DOMAIN template |->
                IF template[i] \in DOMAIN values THEN values[template[i]]
                ELSE <<template[i]>>])

\* Mutant: the schema version is not recorded in the MigrationDetail.
MigrationDetail_NoVersion(databaseID, databaseName, statement, schemaVersion) ==
    [DatabaseID |-> databaseID, DatabaseName |-> databaseName, Statement |-> statement,
     SchemaVersion |-> <<>>]

MigrationDetail(databaseID, databaseName, statement, schemaVersion) ==
    [DatabaseID |-> databaseID, DatabaseName |-> databaseName, Statement |-> statement,
     SchemaVersion |-> schemaVersion]

RECURSIVE sdlDatabases(_, _, _, _, _, _)
\* The loop over the resolved databases: a failed diff adds an ignored-file
\* activity and goes on; any computed diff adds a MigrationDetail.
sdlDatabases(st, in, databases, content, details, activityCreateList) ==
    LET database == Head(databases)
        next(d) ==
            IF d.err # ""
            THEN sdlDatabases(d.st, in, Tail(databases), content, details,
                     Append(activityCreateList,
                            getIgnoredFileActivityCreate(in.repo.ProjectID, in.pushEvent,
                                in.file, "Failed to compute database schema diff")))
            ELSE sdlDatabases(d.st, in, Tail(databases), content,
                     Append(details, MigrationDetail(database.ID, <<>>, d.diff, <<>>)),
                     activityCreateList)
    IN  IF databases = <<>>
        THEN [st |-> st, details |-> details, activities |-> activityCreateList]
        ELSE next(computeDatabaseSchemaDiff(st, in, database, content))

prepareIssueFromPushEventSDL(st, in, schemaInfo) ==
    LET repo == in.repo
        dbName == schemaInfo.DB_NAME
        envName == schemaInfo.ENV_NAME
        migrationInfo ==
            [nil |-> FALSE, Version |-> DefaultMigrationVersion, Namespace |-> dbName,
             Database |-> dbName, Environment |-> envName, Source |-> VCS,
             Type |-> Migrate, Description |-> <<"Apply schema diff">>]
        added == Replace(repo.FilePathTemplate,
                         ("{{ENV_NAME}}" :> envName) @@ ("{{DB_NAME}}" :> dbName)
                         @@ ("{{VERSION}}" :> migrationInfo.Version)
                         @@ ("{{TYPE}}" :> <<"migrate">>)
                         @@ ("{{DESCRIPTION}}" :> <<"Apply_schema_diff">>))
        \* pushEvent.FileCommit.Added = path.Join(repo.BaseDirectory, added)
        renamed == [in.pushEvent EXCEPT !.FileCommit.Added = PathJoin(repo.BaseDirectory, added)]
        ignored(s, err) ==
            [st |-> s, migrationInfo |-> NilMigrationInfo, details |-> <<>>,
             activities |-> <<getIgnoredFileActivityCreate(repo.ProjectID, in.pushEvent,
                                                           in.file, err)>>,
             pushEvent |-> in.pushEvent]
        afterLoop(loop) ==
            [st |-> loop.st, migrationInfo |-> migrationInfo, details |-> loop.details,
             activities |-> loop.activities, pushEvent |-> renamed]
        afterFind(content, found) ==
            IF found.err # "" THEN ignored(found.st, "Failed to find project databases")
            ELSE afterLoop(sdlDatabases(found.st, in, found.databases, content, <<>>, <<>>))
        afterRead(read) ==
            IF read.err THEN ignored(read.st, "Failed to read file content")
            ELSE IF repo.Project.TenantMode = TenantModeTenant
            THEN [st |-> read.st, migrationInfo |-> migrationInfo,
                  details |-> <<MigrationDetail(0, dbName, read.content, <<>>)>>,
                  activities |-> <<>>, pushEvent |-> renamed]
            ELSE afterFind(read.content,
                           findProjectDatabases(read.st, in, repo.ProjectID,
                                                repo.Project.TenantMode, dbName, envName))
    IN  IF dbName = <<>>
        THEN [st |-> st, migrationInfo |-> NilMigrationInfo, details |-> <<>>,
              activities |-> <<>>, pushEvent |-> in.pushEvent]
        ELSE afterRead(readFileContent(st, in))

(***************************************************************************)
(* prepareIssueFromPushEventDDL                                            *)
(***************************************************************************)
\* Mutant: the test len(taskList) > 1 is missing, so the first of several
\* matching tasks is patched.
modifiedFileDatabase_NoMultiCheck(st, in, migrationInfo, content, database) ==
    LET id == database.ID
        st1 == Call(st, "FindTask", id)
        st2 == Call(st1, "GetIssueByPipelineID", id)
        st3 == Call(st2, "patchTask", id)
        found(taskList) ==
            IF Len(taskList) = 0 THEN [st |-> st1, return |-> FALSE, activities |-> <<>>]
            ELSE IF Fails(in, "GetIssueByPipelineID", id)
            THEN [st |-> st2, return |-> TRUE, activities |-> <<>>]
            ELSE IF Fails(in, "patchTask", id)
            THEN [st |-> st3, return |-> TRUE, activities |-> <<>>]
            ELSE [st |-> patchTask(st3, taskList[1],
                                   [ID |-> taskList[1].ID, Statement |-> content,
                                    UpdaterID |-> SystemBotID]),
                  return |-> FALSE, activities |-> <<>>]
    IN  IF Fails(in, "FindTask", id)
        THEN [st |-> st1, return |-> TRUE,
              activities |-> <<getIgnoredFileActivityCreate(in.repo.ProjectID, in.pushEvent,
                                   in.file, "Failed to find project task")>>]
        ELSE found(FindTask(st.tasks, id, migrationInfo.Version))

\* The body of the loop over the databases of a modified file: `return` tells
\* whether the body returns from prepareIssueFromPushEventDDL (every such return
\* yields no MigrationDetail) or goes on to the next database.
modifiedFileDatabase(st, in, migrationInfo, content, database) ==
    LET id == database.ID
        st1 == Call(st, "FindTask", id)
        st2 == Call(st1, "GetIssueByPipelineID", id)
        st3 == Call(st2, "patchTask", id)
        found(taskList) ==
            IF Len(taskList) = 0 THEN [st |-> st1, return |-> FALSE, activities |-> <<>>]
            ELSE IF Len(taskList) > 1 THEN [st |-> st1, return |-> TRUE, activities |-> <<>>]
            ELSE IF Fails(in, "GetIssueByPipelineID", id)
            THEN [st |-> st2, return |-> TRUE, activities |-> <<>>]
            ELSE IF Fails(in, "patchTask", id)
            THEN [st |-> st3, return |-> TRUE, activities |-> <<>>]
            ELSE [st |-> patchTask(st3, taskList[1],
                                   [ID |-> taskList[1].ID, Statement |-> content,
                                    UpdaterID |-> SystemBotID]),
                  return |-> FALSE, activities |-> <<>>]
    IN  IF Fails(in, "FindTask", id)
        THEN [st |-> st1, return |-> TRUE,
              activities |-> <<getIgnoredFileActivityCreate(in.repo.ProjectID, in.pushEvent,
                                   in.file, "Failed to find project task")>>]
        ELSE found(FindTask(st.tasks, id, migrationInfo.Version))

RECURSIVE modifiedFileDatabases(_, _, _, _, _)
\* The loop "for _, database := range databases" of a modified file.
modifiedFileDatabases(st, in, migrationInfo, content, databases) ==
    LET next(body) ==
            IF body.return THEN [st |-> body.st, activities |-> body.activities]
            ELSE modifiedFileDatabases(body.st, in, migrationInfo, content, Tail(databases))
    IN  IF databases = <<>> THEN [st |-> st, activities |-> <<>>]
        ELSE next(modifiedFileDatabase(st, in, migrationInfo, content, Head(databases)))

\* Mutant: the file type is not consulted, and a modified file yields the
\* MigrationDetails of an added one.
prepareIssueFromPushEventDDL_IgnoreFileType(st, in, migrationInfo) ==
    LET repo == in.repo
        afterFind(content, found) ==
            IF found.err # "" THEN [st |-> found.st, details |-> <<>>, activities |-> <<>>]
            ELSE [st |-> found.st,
                  details |-> [k \in DOMAIN found.databases |->
                                  MigrationDetail(found.databases[k].ID, <<>>, content,
                                                  migrationInfo.Version)],
                  activities |-> <<>>]
        afterRead(read) ==
            IF read.err THEN [st |-> read.st, details |-> <<>>, activities |-> <<>>]
            ELSE afterFind(read.content,
                           findProjectDatabases(read.st, in, repo.ProjectID,
                               repo.Project.TenantMode, migrationInfo.Database,
                               migrationInfo.Environment))
    IN  afterRead(readFileContent(st, in))

\* Mutant: in a tenant-mode project only an added file yields a MigrationDetail;
\* a modified file is handled as in a project without tenant mode.
prepareIssueFromPushEventDDL_TenantAddedOnly(st, in, migrationInfo) ==
    LET repo == in.repo
        ignored(s, err) ==
            [st |-> s, details |-> <<>>,
             activities |-> <<getIgnoredFileActivityCreate(repo.ProjectID, in.pushEvent,
                                                           in.file, err)>>]
        afterLoop(loop) == [st |-> loop.st, details |-> <<>>, activities |-> loop.activities]
        afterFind(content, found) ==
            IF found.err # "" THEN ignored(found.st, "Failed to find project databases")
            ELSE IF in.fileType = fileItemTypeAdded
            THEN [st |-> found.st,
                  details |-> [k \in DOMAIN found.databases |->
                                  MigrationDetail(found.databases[k].ID, <<>>, content,
                                                  migrationInfo.Version)],
                  activities |-> <<>>]
            ELSE afterLoop(modifiedFileDatabases(found.st, in, migrationInfo, content,
                                                 found.databases))
        afterRead(read) ==
            IF read.err THEN ignored(read.st, "Failed to read file content")
            ELSE IF repo.Project.TenantMode = TenantModeTenant
                    /\ in.fileType = fileItemTypeAdded
            THEN [st |-> read.st,
                  details |-> <<MigrationDetail(0, migrationInfo.Database, read.content,
                                                migrationInfo.Version)>>,
                  activities |-> <<>>]
            ELSE afterFind(read.content,
                           findProjectDatabases(read.st, in, repo.ProjectID,
                               repo.Project.TenantMode, migrationInfo.Database,
                               migrationInfo.Environment))
    IN  afterRead(readFileContent(st, in))

prepareIssueFromPushEventDDL(st, in, migrationInfo) ==
    LET repo == in.repo
        ignored(s, err) ==
            [st |-> s, details |-> <<>>,
             activities |-> <<getIgnoredFileActivityCreate(repo.ProjectID, in.pushEvent,
                                                           in.file, err)>>]
        afterLoop(loop) == [st |-> loop.st, details |-> <<>>, activities |-> loop.activities]
        afterFind(content, found) ==
            IF found.err # "" THEN ignored(found.st, "Failed to find project databases")
            ELSE IF in.fileType = fileItemTypeAdded
            THEN [st |-> found.st,
                  details |-> [k \in DOMAIN found.databases |->
                                  MigrationDetail(found.databases[k].ID, <<>>, content,
                                                  migrationInfo.Version)],
                  activities |-> <<>>]
            ELSE afterLoop(modifiedFileDatabases(found.st, in, migrationInfo, content,
                                                 found.databases))
        afterRead(read) ==
            IF read.err THEN ignored(read.st, "Failed to read file content")
            ELSE IF repo.Project.TenantMode = TenantModeTenant
            THEN [st |-> read.st,
                  details |-> <<MigrationDetail(0, migrationInfo.Database, read.content,
                                                migrationInfo.Version)>>,
                  activities |-> <<>>]
            ELSE afterFind(read.content,
                           findProjectDatabases(read.st, in, repo.ProjectID,
                               repo.Project.TenantMode, migrationInfo.Database,
                               migrationInfo.Environment))
    IN  afterRead(readFileContent(st, in))

(***************************************************************************)
(* createIssueFromPushEvent                                                *)
(***************************************************************************)
\* What createIssueFromPushEvent returns (message, created, activityCreateList,
\* err as an HTTP status or 0), with the state it leaves, the push event it was
\* given as it is at the return, and the branch that returned.
Returned(st, message, created, activityCreateList, err, pushEvent, route) ==
    [st |-> st, message |-> message, created |-> created,
     activityCreateList |-> activityCreateList, err |-> err, pushEvent |-> pushEvent,
     route |-> route]

\* Mutant: the test len(migrationDetailList) == 0 is missing, so an issue is
\* created for a file that produced no MigrationDetail.
materializeIssue_NoEmptyCheck(st, in, migrationInfo, migrationDetailList, activityCreateList, pushEvent, route) ==
    LET repo == in.repo
        fileEscaped == EscapeForLogging(in.file)
        hasEmail == pushEvent.FileCommit.AuthorEmail # ""
        st1 == IF hasEmail THEN Call(st, "GetPrincipalByEmail", 0) ELSE st
        creatorID == IF hasEmail /\ in.principal = "found"
                     THEN CommitterPrincipalID ELSE SystemBotID
        st2 == Call(st1, "MarshalContext", 0)
        issueType == IF migrationInfo.Type = Data
                     THEN IssueDatabaseDataUpdate ELSE IssueDatabaseSchemaUpdate
        issueCreate ==
            [ProjectID |-> repo.ProjectID,
             Name |-> migrationInfo.Description \o <<" by ">>
                      \o TrimPrefix(fileEscaped, repo.BaseDirectory \o <<"/">>),
             Type |-> issueType,
             Description |-> pushEvent.FileCommit.Message,
             AssigneeID |-> SystemBotID,
             CreateContext |-> [MigrationType |-> migrationInfo.Type,
                                VCSPushEvent |-> pushEvent,
                                DetailList |-> migrationDetailList]]
        st3 == Call(st2, "createIssue", 0)
        failed(s) == Returned(s, <<>>, FALSE, activityCreateList, 500, pushEvent, route)
        activityCreate(issue) ==
            [CreatorID |-> creatorID, ContainerID |-> repo.ProjectID,
             Type |-> "bb.project.repository.push", Level |-> ActivityInfo,
             Comment |-> [text |-> "Created issue", subject |-> issue.Name, err |-> ""],
             Payload |-> [VCSPushEvent |-> pushEvent, IssueID |-> issue.ID,
                          IssueName |-> issue.Name]]
        afterCreate(made) ==
            IF Fails(in, "MarshalPayload", 0)
            THEN failed(Call(made.st, "MarshalPayload", 0))
            ELSE IF Fails(in, "CreateActivity", 0)
            THEN failed(Call(Call(made.st, "MarshalPayload", 0), "CreateActivity", 0))
            ELSE Returned(CreateActivity(Call(Call(made.st, "MarshalPayload", 0),
                                              "CreateActivity", 0),
                                         activityCreate(made.issue)),
                          <<"Created issue ">> \o made.issue.Name \o <<" on adding ">> \o in.file,
                          TRUE, activityCreateList, 0, pushEvent, route)
    IN  IF migrationInfo.nil
        THEN Returned(st, <<>>, FALSE, activityCreateList, 0, pushEvent, route)
        ELSE IF Fails(in, "MarshalContext", 0) THEN failed(st2)
        ELSE IF Fails(in, "createIssue", 0) THEN failed(st3)
        ELSE afterCreate(createIssue(st3, issueCreate, creatorID))

\* From "if migrationInfo == nil || len(migrationDetailList) == 0" to the end.
materializeIssue(st, in, migrationInfo, migrationDetailList, activityCreateList, pushEvent, route) ==
    LET repo == in.repo
        fileEscaped == EscapeForLogging(in.file)
        hasEmail == pushEvent.FileCommit.AuthorEmail # ""
        st1 == IF hasEmail THEN Call(st, "GetPrincipalByEmail", 0) ELSE st
        creatorID == IF hasEmail /\ in.principal = "found"
                     THEN CommitterPrincipalID ELSE SystemBotID
        st2 == Call(st1, "MarshalContext", 0)
        issueType == IF migrationInfo.Type = Data
                     THEN IssueDatabaseDataUpdate ELSE IssueDatabaseSchemaUpdate
        issueCreate ==
            [ProjectID |-> repo.ProjectID,
             Name |-> migrationInfo.Description \o <<" by ">>
                      \o TrimPrefix(fileEscaped, repo.BaseDirectory \o <<"/">>),
             Type |-> issueType,
             Description |-> pushEvent.FileCommit.Message,
             AssigneeID |-> SystemBotID,
             CreateContext |-> [MigrationType |-> migrationInfo.Type,
                                VCSPushEvent |-> pushEvent,
                                DetailList |-> migrationDetailList]]
        st3 == Call(st2, "createIssue", 0)
        failed(s) == Returned(s, <<>>, FALSE, activityCreateList, 500, pushEvent, route)
        activityCreate(issue) ==
            [CreatorID |-> creatorID, ContainerID |-> repo.ProjectID,
             Type |-> "bb.project.repository.push", Level |-> ActivityInfo,
             Comment |-> [text |-> "Created issue", subject |-> issue.Name, err |-> ""],
             Payload |-> [VCSPushEvent |-> pushEvent, IssueID |-> issue.ID,
                          IssueName |-> issue.Name]]
        afterCreate(made) ==
            IF Fails(in, "MarshalPayload", 0)
            THEN failed(Call(made.st, "MarshalPayload", 0))
            ELSE IF Fails(in, "CreateActivity", 0)
            THEN failed(Call(Call(made.st, "MarshalPayload", 0), "CreateActivity", 0))
            ELSE Returned(CreateActivity(Call(Call(made.st, "MarshalPayload", 0),
                                              "CreateActivity", 0),
                                         activityCreate(made.issue)),
                          <<"Created issue ">> \o made.issue.Name \o <<" on adding ">> \o in.file,
                          TRUE, activityCreateList, 0, pushEvent, route)
    IN  IF migrationInfo.nil \/ Len(migrationDetailList) = 0
        THEN Returned(st, <<>>, FALSE, activityCreateList, 0, pushEvent, route)
        ELSE IF Fails(in, "MarshalContext", 0) THEN failed(st2)
        ELSE IF Fails(in, "createIssue", 0) THEN failed(st3)
        ELSE afterCreate(createIssue(st3, issueCreate, creatorID))

\* Mutant: a schema file is reconciled as one whatever the schema-change mode of
\* the project.
createIssueFromPushEvent_SchemaFileAnyMode(st, in) ==
    LET repo == in.repo
        project == repo.Project
        fileEscaped == EscapeForLogging(in.file)
        nothing(err, route) == Returned(st, <<>>, FALSE, <<>>, err, in.pushEvent, route)
        afterSDL(sdl) ==
            materializeIssue(sdl.st, in, sdl.migrationInfo, sdl.details, sdl.activities,
                             sdl.pushEvent, "SDL")
        afterDDL(migrationInfo, ddl) ==
            materializeIssue(ddl.st, in, migrationInfo, ddl.details, ddl.activities,
                             in.pushEvent, "DDL")
        afterParse(parsed) ==
            IF parsed.err THEN nothing(0, "not a migration file")
            ELSE IF project.SchemaChangeType = ProjectSchemaChangeTypeSDL
                    /\ parsed.info.Type # Data
            THEN Returned(st, <<>>, FALSE,
                          <<getIgnoredFileActivityCreate(repo.ProjectID, in.pushEvent, in.file,
                                "Only DATA type migration scripts are allowed")>>,
                          0, in.pushEvent, "schema migration in SDL project")
            ELSE afterDDL(parsed.info, prepareIssueFromPushEventDDL(st, in, parsed.info))
        afterSchemaInfo(schemaInfo) ==
            IF schemaInfo.err THEN nothing(0, "schema template error")
            ELSE IF ~schemaInfo.nil
            THEN afterSDL(prepareIssueFromPushEventSDL(st, in, schemaInfo))
            ELSE afterParse(ParseMigrationInfo(in.file,
                                PathJoin(repo.BaseDirectory, repo.FilePathTemplate)))
    IN  IF project.TenantMode = TenantModeTenant /\ ~in.feature
        THEN nothing(403, "forbidden")
        ELSE IF ~HasPrefix(fileEscaped, repo.BaseDirectory)
        THEN nothing(0, "outside base directory")
        ELSE afterSchemaInfo(parseSchemaFileInfo(repo.BaseDirectory, repo.SchemaPathTemplate,
                                                 fileEscaped))

\* Mutant: a migration script of any type is taken in an SDL project.
createIssueFromPushEvent_AnyTypeInSDL(st, in) ==
    LET repo == in.repo
        project == repo.Project
        fileEscaped == EscapeForLogging(in.file)
        nothing(err, route) == Returned(st, <<>>, FALSE, <<>>, err, in.pushEvent, route)
        afterSDL(sdl) ==
            materializeIssue(sdl.st, in, sdl.migrationInfo, sdl.details, sdl.activities,
                             sdl.pushEvent, "SDL")
        afterDDL(migrationInfo, ddl) ==
            materializeIssue(ddl.st, in, migrationInfo, ddl.details, ddl.activities,
                             in.pushEvent, "DDL")
        afterParse(parsed) ==
            IF parsed.err THEN nothing(0, "not a migration file")
            ELSE afterDDL(parsed.info, prepareIssueFromPushEventDDL(st, in, parsed.info))
        afterSchemaInfo(schemaInfo) ==
            IF schemaInfo.err THEN nothing(0, "schema template error")
            ELSE IF project.SchemaChangeType = ProjectSchemaChangeTypeDDL /\ ~schemaInfo.nil
            THEN nothing(0, "schema file in DDL project")
            ELSE IF project.SchemaChangeType = ProjectSchemaChangeTypeSDL /\ ~schemaInfo.nil
            THEN afterSDL(prepareIssueFromPushEventSDL(st, in, schemaInfo))
            ELSE afterParse(ParseMigrationInfo(in.file,
                                PathJoin(repo.BaseDirectory, repo.FilePathTemplate)))
    IN  IF project.TenantMode = TenantModeTenant /\ ~in.feature
        THEN nothing(403, "forbidden")
        ELSE IF ~HasPrefix(fileEscaped, repo.BaseDirectory)
        THEN nothing(0, "outside base directory")
        ELSE afterSchemaInfo(parseSchemaFileInfo(repo.BaseDirectory, repo.SchemaPathTemplate,
                                                 fileEscaped))

createIssueFromPushEvent(st, in) ==
    LET repo == in.repo
        project == repo.Project
        fileEscaped == EscapeForLogging(in.file)
        nothing(err, route) == Returned(st, <<>>, FALSE, <<>>, err, in.pushEvent, route)
        afterSDL(sdl) ==
            materializeIssue(sdl.st, in, sdl.migrationInfo, sdl.details, sdl.activities,
                             sdl.pushEvent, "SDL")
        afterDDL(migrationInfo, ddl) ==
            materializeIssue(ddl.st, in, migrationInfo, ddl.details, ddl.activities,
                             in.pushEvent, "DDL")
        afterParse(parsed) ==
            IF parsed.err THEN nothing(0, "not a migration file")
            ELSE IF project.SchemaChangeType = ProjectSchemaChangeTypeSDL
                    /\ parsed.info.Type # Data
            THEN Returned(st, <<>>, FALSE,
                          <<getIgnoredFileActivityCreate(repo.ProjectID, in.pushEvent, in.file,
                                "Only DATA type migration scripts are allowed")>>,
                          0, in.pushEvent, "schema migration in SDL project")
            ELSE afterDDL(parsed.info, prepareIssueFromPushEventDDL(st, in, parsed.info))
        afterSchemaInfo(schemaInfo) ==
            IF schemaInfo.err THEN nothing(0, "schema template error")
            ELSE IF project.SchemaChangeType = ProjectSchemaChangeTypeDDL /\ ~schemaInfo.nil
            THEN nothing(0, "schema file in DDL project")
            ELSE IF project.SchemaChangeType = ProjectSchemaChangeTypeSDL /\ ~schemaInfo.nil
            THEN afterSDL(prepareIssueFromPushEventSDL(st, in, schemaInfo))
            ELSE afterParse(ParseMigrationInfo(in.file,
                                PathJoin(repo.BaseDirectory, repo.FilePathTemplate)))
    IN  IF project.TenantMode = TenantModeTenant /\ ~in.feature
        THEN nothing(403, "forbidden")
        ELSE IF ~HasPrefix(fileEscaped, repo.BaseDirectory)
        THEN nothing(0, "outside base directory")
        ELSE afterSchemaInfo(parseSchemaFileInfo(repo.BaseDirectory, repo.SchemaPathTemplate,
                                                 fileEscaped))

(***************************************************************************)
(* The reconciliation of one file of a push on a store that already holds  *)
(* issues and tasks                                                        *)
(***************************************************************************)
\* The vcs.PushEvent both handlers build for one file and one repository binding.
newPushEvent(repo, ref, repositoryID, commitID, message, createdTs, authorEmail, fileName) ==
    [VCSType |-> repo.VCS.Type, BaseDirectory |-> repo.BaseDirectory, Ref |-> ref,
     RepositoryID |-> repositoryID,
     FileCommit |-> [ID |-> commitID, Message |-> message, CreatedTs |-> createdTs,
                     AuthorEmail |-> authorEmail, Added |-> EscapeForLogging(fileName)]]

OldStatement == <<"CREATE TABLE t();">>

\* A task row of an earlier issue; each such task has its own pipeline and issue.
TaskRow(id, databaseID, status, type, version) ==
    [ID |-> id, DatabaseID |-> databaseID, PipelineID |-> id, Status |-> status,
     Type |-> type, Payload |-> [Statement |-> OldStatement, SchemaVersion |-> version],
     UpdaterID |-> CommitterPrincipalID]

\* The issue row of the pipeline of an earlier task.
IssueRow(task) ==
    [ID |-> task.ID, PipelineID |-> task.PipelineID, CreatorID |-> CommitterPrincipalID,
     ProjectID |-> IF task.DatabaseID = 7 THEN 3 ELSE 1, Name |-> <<"earlier issue">>, Type |-> IssueDatabaseSchemaUpdate,
     Description |-> <<"earlier commit">>, AssigneeID |-> SystemBotID,
     CreateContext |-> [MigrationType |-> Migrate,
                        VCSPushEvent |-> newPushEvent(RepoDDL, <<"refs/heads/", "main">>,
                                            "100", "c0", <<"earlier commit">>, 1,
                                            "dev@example.com", FileMigrateV1),
                        DetailList |-> <<>>]]

\* n tasks of a database that the TaskFind of a modified file of version "v1"
\* selects: waiting for approval or failed, schema or data update.
EligibleRows(databaseID, n) ==
    [k \in 1..n |->
        IF k % 2 = 1
        THEN TaskRow(0, databaseID, TaskPendingApproval, TaskDatabaseSchemaUpdate, <<"v1">>)
        ELSE TaskRow(0, databaseID, TaskFailed, TaskDatabaseDataUpdate, <<"v1">>)]

\* Tasks the TaskFind of a modified file of database 1 or 2 leaves out: done, of
\* another version, of another type, of another database; the last one is a task
\* of version "v1" of the database of the tenant-mode project.
OtherRows ==
    << TaskRow(0, 1, TaskDone, TaskDatabaseSchemaUpdate, <<"v1">>),
       TaskRow(0, 1, TaskPendingApproval, TaskDatabaseSchemaUpdate, <<"v2">>),
       TaskRow(0, 2, TaskPendingApproval, TaskDatabaseCreate, <<"v1">>),
       TaskRow(0, 3, TaskPendingApproval, TaskDatabaseSchemaUpdate, <<"v1">>),
       TaskRow(0, 7, TaskPendingApproval, TaskDatabaseSchemaUpdate, <<"v1">>) >>

\* The task table with n1 selected tasks of database 1 and n2 of database 2.
InitialTasks(n1, n2, others) ==
    LET rows == EligibleRows(1, n1) \o EligibleRows(2, n2)
                \o (IF others THEN OtherRows ELSE <<>>)
    IN  [k \in DOMAIN rows |-> [rows[k] EXCEPT !.ID = k, !.PipelineID = k]]

InitialIssues(taskRows) == [k \in DOMAIN taskRows |-> IssueRow(taskRows[k])]

Principals == {"found", "absent", "error"}

\* The dependency calls that can fail, out of those a reconciliation makes.  The
\* two json.Marshal calls are given structs of strings and integers, for which
\* json.Marshal returns no error.
Failable(calls) ==
    {c \in {calls[k] : k \in DOMAIN calls} :
        c.op \notin {"Close", "GetPrincipalByEmail", "MarshalContext", "MarshalPayload"}}

\* The outcomes of the committer lookup, for a reconciliation that makes it.
LooksUp(calls) ==
    IF \E k \in DOMAIN calls : calls[k].op = "GetPrincipalByEmail"
    THEN Principals ELSE {"found"}

Init ==
    /\ \E n1 \in 0..MaxEligibleTasks, n2 \in 0..MaxEligibleTasks, others \in BOOLEAN :
          /\ tasks = InitialTasks(n1, n2, others)
          /\ issues = InitialIssues(tasks)
    /\ activities = <<>>
    /\ last = [called |-> FALSE]
    /\ commitList = <<>>
    /\ distinctFileList = <<>>
    /\ pc = "reconcile"

\* One call of createIssueFromPushEvent, as a handler makes it for one file and
\* one repository binding.
Reconcile ==
    /\ pc = "reconcile"
    /\ ~last.called
    /\ \E repo \in Repositories, file \in Files,
          fileType \in {fileItemTypeAdded, fileItemTypeModified}, content \in Contents :
       \E feature \in (IF repo.Project.TenantMode = TenantModeTenant THEN BOOLEAN ELSE {TRUE}) :
          LET st0 == [tasks |-> tasks, issues |-> issues, activities |-> activities,
                      calls |-> <<>>]
              in0 == [repo |-> repo,
                      pushEvent |-> newPushEvent(repo, <<"refs/heads/", "main">>, "100", "c1",
                                        <<"change">>, 2, "dev@example.com", file),
                      file |-> file, fileType |-> fileType, content |-> content,
                      fail |-> NoFail, principal |-> "found", feature |-> feature]
              r0 == createIssueFromPushEvent(st0, in0)
          IN  \E fail \in {NoFail} \cup Failable(r0.st.calls),
                 principal \in LooksUp(r0.st.calls) :
                 LET in == [in0 EXCEPT !.fail = fail, !.principal = principal]
                     r == createIssueFromPushEvent(st0, in)
                 IN  /\ tasks' = r.st.tasks
                     /\ issues' = r.st.issues
                     /\ activities' = r.st.activities
                     /\ last' = [called |-> TRUE, in |-> in, before |-> st0, result |-> r]
    /\ UNCHANGED <<commitList, distinctFileList, pc>>

Next == Reconcile

Spec == Init /\ [][Next]_vars

(***************************************************************************)
(* Modified files: the notions the statements below are made of            *)
(***************************************************************************)
\* The last reconciliation was that of a modified file of a project without
\* tenant mode whose path was parsed as that of a migration script.
ModifiedMigrationScript ==
    /\ last.called
    /\ last.in.fileType = fileItemTypeModified
    /\ last.in.repo.Project.TenantMode = TenantModeDisabled
    /\ last.result.route \in {"DDL", "schema migration in SDL project"}

\* The same, when the file also went on to the search for its tasks' databases.
ModifiedMigrationScriptDDL == ModifiedMigrationScript /\ last.result.route = "DDL"

\* The version parsed from the path of the last reconciled file.
ParsedVersion ==
    ParseMigrationInfo(last.in.file,
        PathJoin(last.in.repo.BaseDirectory, last.in.repo.FilePathTemplate)).info.Version

\* The ids of the databases the last reconciled file resolves to, in the order in
\* which they are processed.
ResolvedDatabaseIDs ==
    LET info == ParseMigrationInfo(last.in.file,
                    PathJoin(last.in.repo.BaseDirectory, last.in.repo.FilePathTemplate)).info
        named == SelectSeq(Databases,
                     LAMBDA d : d.ProjectID = last.in.repo.ProjectID /\ d.Name = info.Database)
        envs == {named[k].Instance.EnvironmentID : k \in DOMAIN named}
    IN  IF Cardinality(envs) = Len(named) THEN [k \in DOMAIN named |-> named[k].ID] ELSE <<>>

\* The tasks of a database that were eligible before the last reconciliation:
\* waiting for approval or failed, schema or data update, of the parsed version.
EligibleBefore(databaseID) ==
    {k \in DOMAIN last.before.tasks :
        LET t == last.before.tasks[k]
        IN  /\ t.DatabaseID = databaseID
            /\ t.Status \in {"PENDING_APPROVAL", "FAILED"}
            /\ t.Type \in {"bb.task.database.schema.update", "bb.task.database.data.update"}
            /\ t.Payload.SchemaVersion = ParsedVersion}

ResolvedIDSet == {ResolvedDatabaseIDs[k] : k \in DOMAIN ResolvedDatabaseIDs}

\* The tasks that are the one eligible task of a resolved database.
SingleEligibleTasks ==
    UNION {EligibleBefore(d) : d \in {e \in ResolvedIDSet : Cardinality(EligibleBefore(e)) = 1}}

TaskUnchanged(k) == tasks[k] = last.before.tasks[k]

TaskPatched(k) ==
    /\ tasks[k].Payload.Statement = last.in.content
    /\ tasks[k].ID = last.before.tasks[k].ID

\* C7: the reconciliation of a modified file on the migration-script path of a
\* project without tenant mode creates no issue, whatever the number of matching
\* tasks and whatever dependency fails; when no resolved database has a matching
\* task, no task and no issue changes.
C7_ModifiedNeverCreatesIssue ==
    ModifiedMigrationScript =>
        /\ issues = last.before.issues
        /\ ~last.result.created
        /\ Len(tasks) = Len(last.before.tasks)
        /\ (\A d \in ResolvedIDSet : EligibleBefore(d) = {}) => tasks = last.before.tasks

\* A modified file whose one matching task was patched, with the issues as before.
C7_Witness ==
    /\ ModifiedMigrationScriptDDL
    /\ \E k \in DOMAIN tasks : ~TaskUnchanged(k) /\ TaskPatched(k)
    /\ issues = last.before.issues

\* C8: after the reconciliation of a modified file of a project without tenant
\* mode, in which no dependency failed, the one eligible task of each resolved
\* database holds the new file content under the id it had, and no other task
\* is modified.
C8_SingleEligibleTaskPatched ==
    (ModifiedMigrationScriptDDL /\ last.in.fail = NoFail) =>
        /\ \A k \in SingleEligibleTasks : TaskPatched(k)
        /\ \A k \in DOMAIN tasks \ SingleEligibleTasks : TaskUnchanged(k)

\* C9 as stated: when a resolved database of a modified file has more than one
\* eligible task, the reconciliation mutates no task at all, and returns no error.
C9_NoTaskMutated ==
    (ModifiedMigrationScriptDDL /\ \E d \in ResolvedIDSet : Cardinality(EligibleBefore(d)) > 1) =>
        /\ tasks = last.before.tasks
        /\ last.result.err = 0

\* C9 amended: when a resolved database of a modified file has more than one
\* eligible task, the reconciliation mutates no task of that database and returns
\* no error; a task of a database processed before it may have been patched.
C9_NoTaskOfThatDatabaseMutated ==
    ModifiedMigrationScriptDDL =>
        \A d \in ResolvedIDSet :
            Cardinality(EligibleBefore(d)) > 1 =>
                /\ \A k \in DOMAIN tasks : tasks[k].DatabaseID = d => TaskUnchanged(k)
                /\ Len(tasks) = Len(last.before.tasks)
                /\ last.result.err = 0

\* A resolved database with more than one eligible task, after the one eligible
\* task of the database processed before it was patched.
C9_Witness ==
    /\ ModifiedMigrationScriptDDL
    /\ \E d \in ResolvedIDSet : Cardinality(EligibleBefore(d)) > 1
    /\ \E k \in SingleEligibleTasks : ~TaskUnchanged(k)

\* C10: when a modified file resolves to several databases, and the file was read
\* and its databases were found, every resolved database that has exactly one
\* eligible task and whose own lookups and patch did not fail gets that task
\* patched, whatever happened while another database was handled.
C10_RemainingDatabasesPatched ==
    (/\ ModifiedMigrationScriptDDL
     /\ Len(ResolvedDatabaseIDs) > 1
     /\ last.in.fail.op \notin {"ReadFileContent", "FindDatabase"}) =>
        \A d \in ResolvedIDSet :
            (Cardinality(EligibleBefore(d)) = 1 /\ last.in.fail.db # d) =>
                \A k \in EligibleBefore(d) : TaskPatched(k)

(***************************************************************************)
(* Issue materialization: the notions the statements below are made of     *)
(***************************************************************************)
\* The issue rows the last reconciliation added.
CreatedIssues == SubSeq(issues, Len(last.before.issues) + 1, Len(issues))

\* The number of times the last reconciliation called Server.createIssue.
CreateIssueCalls ==
    Cardinality({k \in DOMAIN last.result.st.calls :
                    last.result.st.calls[k].op = "createIssue"})

\* The last reconciliation was that of a schema file of an SDL project without
\* tenant mode.
SDLReconciled ==
    /\ last.called
    /\ last.result.route = "SDL"
    /\ last.in.repo.Project.TenantMode = TenantModeDisabled

\* The databases of the last binding's project that hold the schema the last
\* reconciled file declares: their diff against the file is empty.
DatabasesUpToDate ==
    {Databases[k].ID : k \in {j \in DOMAIN Databases :
                                /\ Databases[j].ProjectID = last.in.repo.ProjectID
                                /\ Databases[j].Schema = last.in.content}}

\* The databases of the last binding's project that the schema file names.
SDLResolved ==
    LET info == parseSchemaFileInfo(last.in.repo.BaseDirectory,
                                    last.in.repo.SchemaPathTemplate, last.in.file)
    IN  {Databases[k].ID : k \in {j \in DOMAIN Databases :
                                    /\ Databases[j].ProjectID = last.in.repo.ProjectID
                                    /\ Databases[j].Name = info.DB_NAME}}

\* C11: on the SDL path of a project without tenant mode, no created issue holds a
\* MigrationDetail for a database whose schema diff is empty, and no issue is
\* created when the diff of every resolved database is empty.
C11_EmptyDiffNoDetail ==
    SDLReconciled =>
        /\ \A i \in DOMAIN CreatedIssues :
              \A k \in DOMAIN CreatedIssues[i].CreateContext.DetailList :
                 /\ CreatedIssues[i].CreateContext.DetailList[k].DatabaseID
                        \notin DatabasesUpToDate
                 /\ CreatedIssues[i].CreateContext.DetailList[k].Statement # <<>>
        /\ SDLResolved \subseteq DatabasesUpToDate => CreatedIssues = <<>>

\* The MigrationDetails the last reconciliation produced for its file.
ProducedDetails ==
    IF last.result.route = "DDL"
    THEN prepareIssueFromPushEventDDL(last.before, last.in,
             ParseMigrationInfo(last.in.file,
                 PathJoin(last.in.repo.BaseDirectory,
                          last.in.repo.FilePathTemplate)).info).details
    ELSE IF last.result.route = "SDL"
    THEN prepareIssueFromPushEventSDL(last.before, last.in,
             parseSchemaFileInfo(last.in.repo.BaseDirectory,
                 last.in.repo.SchemaPathTemplate,
                 EscapeForLogging(last.in.file))).details
    ELSE <<>>

\* C12: one reconciliation calls createIssue at most once; it calls it once, for an
\* issue that carries every MigrationDetail produced for the file, when at least
\* one was produced, and not at all when none was produced.
C12_AtMostOneIssuePerFile ==
    last.called =>
        /\ CreateIssueCalls <= 1
        /\ Len(CreatedIssues) <= 1
        /\ ProducedDetails = <<>> => (CreateIssueCalls = 0 /\ CreatedIssues = <<>>)
        /\ ProducedDetails # <<>> =>
              /\ CreateIssueCalls = 1
              /\ last.in.fail.op # "createIssue" =>
                    /\ Len(CreatedIssues) = 1
                    /\ CreatedIssues[1].CreateContext.DetailList = ProducedDetails

\* One issue that carries the two MigrationDetails of an added file.
C12_Witness ==
    /\ last.called
    /\ Len(ProducedDetails) = 2
    /\ Len(CreatedIssues) = 1
    /\ CreatedIssues[1].CreateContext.DetailList = ProducedDetails

\* The migration type parsed from the path of the last reconciled file.
ParsedType ==
    ParseMigrationInfo(last.in.file,
        PathJoin(last.in.repo.BaseDirectory, last.in.repo.FilePathTemplate)).info.Type

\* The last reconciliation was that of an added migration file of a DDL project
\* without tenant mode, with exactly one database of the file's name, and no
\* dependency failed.
AddedToOneDatabase ==
    /\ last.called
    /\ last.in.fileType = fileItemTypeAdded
    /\ last.result.route = "DDL"
    /\ last.in.repo.Project.SchemaChangeType = ProjectSchemaChangeTypeDDL
    /\ last.in.repo.Project.TenantMode = TenantModeDisabled
    /\ Len(ResolvedDatabaseIDs) = 1
    /\ last.in.fail = NoFail

\* C13: an added migration file of a DDL project without tenant mode that has
\* exactly one database of the file's name creates exactly one issue, a data update
\* when the parsed type is data and a schema update otherwise, whose one
\* MigrationDetail targets that database with the file content as statement and
\* the parsed version as schema version.
C13_AddedFileCreatesOneIssue ==
    AddedToOneDatabase =>
        /\ last.result.created
        /\ Len(CreatedIssues) = 1
        /\ CreatedIssues[1].Type = (IF ParsedType = "DATA" THEN "bb.issue.database.data.update"
                                    ELSE "bb.issue.database.schema.update")
        /\ CreatedIssues[1].CreateContext.DetailList
              = << [DatabaseID |-> ResolvedDatabaseIDs[1], DatabaseName |-> <<>>,
                    Statement |-> last.in.content, SchemaVersion |-> ParsedVersion] >>

\* An added data file of such a project, with its data-update issue.
C13_Witness ==
    /\ AddedToOneDatabase
    /\ ParsedType = "DATA"
    /\ Len(CreatedIssues) = 1
    /\ CreatedIssues[1].Type = "bb.issue.database.data.update"

(***************************************************************************)
(* Webhook requests: endpoints, payloads and headers                       *)
(***************************************************************************)
\* strconv.Itoa
Itoa(n) == ToString(n)

\* hex.EncodeToString of the HMAC-SHA256 of the body under the key: a text that
\* is determined by the key and the body, and differs when either differs.
HMACSHA256Hex(key, body) == ToString(<<key, body>>)

\* Bindings that a request on branch main with secret "secret-1" for repository
\* "100" leaves out: another branch filter (RepoRelease), no VCS, another secret,
\* another external id.
RepoNoVCS ==
    Repository(5, 4, TenantModeDisabled, ProjectSchemaChangeTypeDDL, <<"main">>, "secret-1",
               "100", FALSE)

RepoOtherSecret ==
    Repository(6, 4, TenantModeDisabled, ProjectSchemaChangeTypeDDL, <<"main">>, "secret-2",
               "100", TRUE)

RepoOtherExternalID ==
    Repository(7, 4, TenantModeDisabled, ProjectSchemaChangeTypeDDL, <<"main">>, "secret-1",
               "200", TRUE)

AllRepositories ==
    Repositories \cup {RepoRelease, RepoNoVCS, RepoOtherSecret, RepoOtherExternalID}

RepositoryIDs == {r.ID : r \in AllRepositories}

\* The bindings registered under a webhook endpoint, in the order of the store.
Bindings(name) ==
    CASE name = "a" -> <<RepoDDL, RepoRelease>>
      [] name = "b" -> <<RepoTenant, RepoDDL>>
      [] name = "c" -> <<RepoDDL, RepoNoVCS>>
      [] name = "d" -> <<RepoOtherSecret, RepoSDL>>
      [] name = "e" -> <<RepoOtherExternalID, RepoDDL>>
      [] OTHER -> <<>>

EndpointNames == {"a", "b", "c", "d", "e", "unknown"}

\* The same binding on GitHub: the external id is the repository's full name.
OnGitHub(repo) ==
    [repo EXCEPT !.ExternalID = IF @ = "100" THEN "octo/db" ELSE "octo/other",
                 !.VCS.Type = "GITHUB_COM"]

\* store.FindRepository by webhook endpoint id.
FindRepository(webhookEndpointID) ==
    IF \E n \in EndpointNames : webhookEndpointID = "gitlab-" \o n
    THEN Bindings(CHOOSE n \in EndpointNames : webhookEndpointID = "gitlab-" \o n)
    ELSE IF \E n \in EndpointNames : webhookEndpointID = "github-" \o n
    THEN LET b == Bindings(CHOOSE n \in EndpointNames : webhookEndpointID = "github-" \o n)
         IN  [k \in DOMAIN b |-> OnGitHub(b[k])]
    ELSE <<>>

\* A commit of a push payload.
Commit(id, timestamp, email, added, modified, distinct) ==
    [ID |-> id, Timestamp |-> timestamp, Message |-> <<"change ", id>>, AuthorEmail |-> email,
     AddedList |-> added, ModifiedList |-> modified, Distinct |-> distinct]

PushedCommitLists ==
    { << Commit("c1", "2022-10-01T00:00:00Z", "dev@example.com", <<FileMigrateV1>>, <<>>, TRUE) >>,
      << Commit("c1", "2022-10-01T00:00:00Z", "stranger@example.com",
                <<FileMigrateV1, FileDataV1>>, <<>>, TRUE) >>,
      << Commit("c1", "2022-10-01T00:00:00Z", "dev@example.com", <<FileMigrateV1>>, <<>>, TRUE),
         Commit("c2", "2022-10-02T00:00:00Z", "dev@example.com", <<FileReadme>>,
                <<FileMigrateV1>>, TRUE) >>,
      << Commit("c1", "2022-10-01T00:00:00Z", "dev@example.com", <<FileDataV1>>, <<>>, FALSE),
         Commit("c2", "2022-10-02T00:00:00Z", "dev@example.com", <<FileSchema>>, <<>>, TRUE) >>,
      << Commit("c1", "not-a-time", "dev@example.com", <<FileMigrateV1>>, <<>>, TRUE) >>,
      << Commit("c1", "2022-10-01T00:00:00Z", "dev@example.com", <<FileDataV1>>, <<>>, TRUE),
         Commit("c2", "2022-10-02T00:00:00Z", "dev@example.com",
                <<FileMigrateV1, FileDataV1>>, <<>>, TRUE) >>,
      << Commit("c2", "2022-10-02T00:00:00Z", "dev@example.com", <<>>, <<FileMigrateV1>>, TRUE),
         Commit("c1", "2022-10-01T00:00:00Z", "dev@example.com", <<FileMigrateV1>>, <<>>,
                TRUE) >> }

\* The decoded body of a push; `malformed` stands for a body json.Unmarshal rejects.
Payload(malformed, objectKind, ref, commits) ==
    [malformed |-> malformed, ObjectKind |-> objectKind, Ref |-> ref, ProjectID |-> 100,
     FullName |-> "octo/db", CommitList |-> commits]

OneCommit ==
    << Commit("c1", "2022-10-01T00:00:00Z", "dev@example.com", <<FileMigrateV1>>, <<>>, TRUE) >>

Payloads ==
    {Payload(FALSE, "push", ref, commits) :
        ref \in {<<"refs/heads/", "main">>, <<"refs/heads/", "release">>},
        commits \in PushedCommitLists}
    \cup {Payload(TRUE, "push", <<"refs/heads/", "main">>, OneCommit),
          Payload(FALSE, "tag_push", <<"refs/heads/", "main">>, OneCommit),
          Payload(FALSE, "push", <<"refs/heads/">>, OneCommit),
          Payload(FALSE, "push", <<"refs/tags/", "v1">>, OneCommit)}

\* A request: the endpoint id of the URL, the headers and the body.
GitLabRequests ==
    {[endpoint |-> "gitlab-" \o n, token |-> token, event |-> "", signature |-> <<>>,
      body |-> body] :
        n \in EndpointNames, token \in {"secret-1", "guess"}, body \in Payloads}

\* The X-Hub-Signature-256 header GitHub sends for a body and a secret.
Signature256(key, body) == <<"sha256=", HMACSHA256Hex(key, body)>>

GitHubRequest(endpoint, event, signature, body) ==
    [endpoint |-> endpoint, token |-> "", event |-> event, signature |-> signature,
     body |-> body]

GoodPayload == Payload(FALSE, "push", <<"refs/heads/", "main">>, OneCommit)

GitHubRequests ==
    {GitHubRequest("github-" \o n, "push", Signature256(key, body), body) :
        n \in EndpointNames, body \in Payloads, key \in {"secret-1", "guess"}}
    \cup {GitHubRequest("github-a", event, Signature256("secret-1", GoodPayload), GoodPayload) :
            event \in {"ping", "issues"}}
    \cup {GitHubRequest("github-a", "push", Tail(Signature256("secret-1", GoodPayload)),
                        GoodPayload)}
    \cup {GitHubRequest("github-unknown", event, <<>>,
                        Payload(TRUE, "push", <<"refs/heads/", "main">>, OneCommit)) :
            event \in {"ping", "issues"}}

\* What the server's dependencies do while a request is handled: the feature
\* flag, and the one dependency call that fails, if any, with the file and the
\* binding in whose processing it fails.
NoFailure == [op |-> "none", db |-> 0, file |-> <<>>, repoID |-> 0]

Failures ==
    {NoFailure,
     [op |-> "FindRepository", db |-> 0, file |-> <<>>, repoID |-> 0],
     [op |-> "createIssue", db |-> 0, file |-> FileMigrateV1, repoID |-> 1],
     [op |-> "ReadFileContent", db |-> 0, file |-> FileMigrateV1, repoID |-> 1],
     [op |-> "CreateIgnoredActivity", db |-> 0, file |-> FileMigrateV1, repoID |-> 1],
     [op |-> "Dump", db |-> 6, file |-> FileSchema, repoID |-> 2],
     [op |-> "createIssue", db |-> 0, file |-> FileSchema, repoID |-> 2]}

Environments(req) ==
    {[feature |-> feature, fail |-> fail] :
        feature \in (IF \E k \in DOMAIN FindRepository(req.endpoint) :
                           FindRepository(req.endpoint)[k].Project.TenantMode = TenantModeTenant
                     THEN BOOLEAN ELSE {TRUE}),
        fail \in Failures}

\* The content the VCS holds for any file at a commit.
ContentAt(commitID) ==
    IF commitID = "c1" THEN <<"ALTER TABLE t ADD a INT;">> ELSE <<"ALTER TABLE t ADD b INT;">>

\* store.GetPrincipalByEmail
PrincipalOf(email) == IF email = "dev@example.com" THEN "found" ELSE "absent"

\* The inputs of the reconciliation of one file for one binding.
ReconcileInput(env, repo, pushEvent, fileName, itemType) ==
    [repo |-> repo, pushEvent |-> pushEvent, file |-> fileName, fileType |-> itemType,
     content |-> ContentAt(pushEvent.FileCommit.ID),
     fail |-> IF env.fail.file = fileName /\ env.fail.repoID = repo.ID
              THEN [op |-> env.fail.op, db |-> env.fail.db] ELSE NoFail,
     principal |-> PrincipalOf(pushEvent.FileCommit.AuthorEmail),
     feature |-> env.feature]

(***************************************************************************)
(* Request validation                                                      *)
(***************************************************************************)
\* Mutant: a ref equal to the prefix is taken for a branch with an empty name.
parseBranchNameFromRefs_NoLengthCheck(ref) ==
    LET expectedPrefix == <<"refs/heads/">>
    IN  IF ~HasPrefix(ref, expectedPrefix)
        THEN [branch |-> ref, err |-> TRUE]
        ELSE [branch |-> SubSeq(ref, Len(expectedPrefix) + 1, Len(ref)), err |-> FALSE]

parseBranchNameFromRefs(ref) ==
    LET expectedPrefix == <<"refs/heads/">>
    IN  IF ~HasPrefix(ref, expectedPrefix) \/ Len(expectedPrefix) = Len(ref)
        THEN [branch |-> ref, err |-> TRUE]
        ELSE [branch |-> SubSeq(ref, Len(expectedPrefix) + 1, Len(ref)), err |-> FALSE]

\* hash.Hash.Write never returns an error, so err is always nil.
validateGitHubWebhookSignature256(signature, key, body) ==
    [validated |-> TrimPrefix(signature, <<"sha256=">>) = <<HMACSHA256Hex(key, body)>>,
     err |-> FALSE]

\* The checks of the GitLab handler on one binding.
gitlabAccepts(repo, req, branch) ==
    /\ repo.BranchFilter = branch
    /\ ~repo.VCS.nil
    /\ req.token = repo.WebhookSecretToken
    /\ Itoa(req.body.ProjectID) = repo.ExternalID

\* The checks of the GitHub handler on one binding.
githubAccepts(repo, req, branch) ==
    /\ repo.BranchFilter = branch
    /\ ~repo.VCS.nil
    /\ validateGitHubWebhookSignature256(req.signature, repo.WebhookSecretToken,
                                         req.body).validated
    /\ req.body.FullName = repo.ExternalID

(***************************************************************************)
(* The loops of the handlers                                               *)
(*                                                                         *)
(* A loop runs on acc = [st, createdMessageList, repoID2ActivityCreateList,*)
(* createdMessages, reconciled, status, panicked]: reconciled lists the    *)
(* calls of createIssueFromPushEvent made for the request, status is the   *)
(* HTTP status of the error that ended the request (0 when none did), and  *)
(* panicked tells that a nil pointer was dereferenced.                     *)
(***************************************************************************)
NoActivities == [id \in RepositoryIDs |-> <<>>]

Reconciled(item, repo, r) ==
    [file |-> item.fileName, itemType |-> item.itemType, repoID |-> repo.ID,
     err |-> r.err, created |-> r.created, activityCreateList |-> r.activityCreateList,
     commit |-> [ID |-> r.pushEvent.FileCommit.ID, Message |-> r.pushEvent.FileCommit.Message,
                 CreatedTs |-> r.pushEvent.FileCommit.CreatedTs,
                 AuthorEmail |-> r.pushEvent.FileCommit.AuthorEmail]]

RECURSIVE persistActivityList(_, _, _)
\* CreateActivity for each ignored-file activity; a failure is logged only.
persistActivityList(st, failing, activityCreateList) ==
    IF activityCreateList = <<>> THEN st
    ELSE LET st1 == Call(st, "CreateIgnoredActivity", 0)
         IN  persistActivityList(
                 IF failing THEN st1 ELSE CreateActivity(st1, Head(activityCreateList)),
                 failing, Tail(activityCreateList))

RECURSIVE persistIgnored(_, _, _, _, _)
\* "for _, repo := range handleRepos" of a file for which no issue was created.
persistIgnored(st, env, fileName, handleRepos, repoID2ActivityCreateList) ==
    IF handleRepos = <<>> THEN st
    ELSE LET repo == Head(handleRepos)
             failing == /\ env.fail.op = "CreateIgnoredActivity"
                        /\ env.fail.file = fileName
                        /\ env.fail.repoID = repo.ID
         IN  persistIgnored(
                 persistActivityList(st, failing, repoID2ActivityCreateList[repo.ID]),
                 env, fileName, Tail(handleRepos), repoID2ActivityCreateList)

RECURSIVE gitlabRepos(_, _, _, _, _)
\* "for _, repo := range handleRepos" of the GitLab handler, for one file.
gitlabRepos(acc, req, env, item, handleRepos) ==
    LET repo == Head(handleRepos)
        pushEvent == newPushEvent(repo, req.body.Ref, Itoa(req.body.ProjectID),
                         item.commit.ID, item.commit.Message, item.createdTime,
                         item.commit.AuthorEmail, item.fileName)
        called(r) == [acc EXCEPT !.st = r.st,
                                 !.reconciled = Append(@, Reconciled(item, repo, r))]
        next(r) ==
            IF r.err # 0
            THEN gitlabRepos(called(r), req, env, item, Tail(handleRepos))
            ELSE gitlabRepos(
                     [called(r) EXCEPT
                         !.createdMessageList = IF r.created THEN Append(@, r.message) ELSE @,
                         !.repoID2ActivityCreateList[repo.ID] = @ \o r.activityCreateList],
                     req, env, item, Tail(handleRepos))
    IN  IF handleRepos = <<>> THEN acc
        ELSE next(createIssueFromPushEvent(acc.st,
                      ReconcileInput(env, repo, pushEvent, item.fileName, item.itemType)))

RECURSIVE gitlabFiles(_, _, _, _, _)
\* "for _, item := range distinctFileList" of the GitLab handler.
gitlabFiles(acc, req, env, handleRepos, items) ==
    LET item == Head(items)
        st1(done) == IF Len(done.createdMessageList) = 0
                     THEN persistIgnored(done.st, env, item.fileName, handleRepos,
                                         done.repoID2ActivityCreateList)
                     ELSE done.st
        next(done) ==
            gitlabFiles([done EXCEPT !.st = st1(done),
                                     !.createdMessages = @ \o done.createdMessageList],
                        req, env, handleRepos, Tail(items))
    IN  IF items = <<>> THEN acc
        ELSE next(gitlabRepos([acc EXCEPT !.createdMessageList = <<>>,
                                          !.repoID2ActivityCreateList = NoActivities],
                              req, env, item, handleRepos))

RECURSIVE githubRepos(_, _, _, _, _)
\* "for _, repo := range repos" of the GitHub handler, for one file: the loop is
\* over every binding of the endpoint.  repo.VCS.Type of a binding without VCS
\* panics; an error of createIssueFromPushEvent is returned to the client.
githubRepos(acc, req, env, item, repos) ==
    LET repo == Head(repos)
        pushEvent == newPushEvent(repo, req.body.Ref, Itoa(req.body.ProjectID),
                         item.commit.ID, item.commit.Message, item.createdTime,
                         item.commit.AuthorEmail, item.fileName)
        called(r) == [acc EXCEPT !.st = r.st,
                                 !.reconciled = Append(@, Reconciled(item, repo, r))]
        next(r) ==
            IF r.err # 0 THEN [called(r) EXCEPT !.status = r.err]
            ELSE githubRepos(
                     [called(r) EXCEPT
                         !.createdMessageList = IF r.created THEN Append(@, r.message) ELSE @,
                         !.repoID2ActivityCreateList[repo.ID] = @ \o r.activityCreateList],
                     req, env, item, Tail(repos))
    IN  IF repos = <<>> THEN acc
        ELSE IF repo.VCS.nil THEN [acc EXCEPT !.panicked = TRUE]
        ELSE next(createIssueFromPushEvent(acc.st,
                      ReconcileInput(env, repo, pushEvent, item.fileName, item.itemType)))

RECURSIVE githubFiles(_, _, _, _, _, _)
\* "for _, file := range files" of the GitHub handler, for one commit.
githubFiles(acc, req, env, repos, handleRepos, items) ==
    LET item == Head(items)
        st1(done) == IF Len(done.createdMessageList) = 0
                     THEN persistIgnored(done.st, env, item.fileName, handleRepos,
                                         done.repoID2ActivityCreateList)
                     ELSE done.st
        next(done) ==
            IF done.panicked \/ done.status # 0 THEN done
            ELSE githubFiles([done EXCEPT !.st = st1(done),
                                          !.createdMessages = @ \o done.createdMessageList],
                             req, env, repos, handleRepos, Tail(items))
    IN  IF items = <<>> THEN acc
        ELSE next(githubRepos([acc EXCEPT !.createdMessageList = <<>>,
                                          !.repoID2ActivityCreateList = NoActivities],
                              req, env, item, repos))

\* Mutant: the modified files of a commit come before its added files.
githubFileItems_ModifiedFirst(commit) ==
    LET item(name, itemType) ==
            [createdTime |-> ParseRFC3339(commit.Timestamp).t, commit |-> commit,
             fileName |-> name, itemType |-> itemType]
    IN  [k \in DOMAIN commit.ModifiedList |->
            item(commit.ModifiedList[k], fileItemTypeModified)]
        \o [k \in DOMAIN commit.AddedList |-> item(commit.AddedList[k], fileItemTypeAdded)]

\* The files of one GitHub commit: the added ones, then the modified ones.
githubFileItems(commit) ==
    LET item(name, itemType) ==
            [createdTime |-> ParseRFC3339(commit.Timestamp).t, commit |-> commit,
             fileName |-> name, itemType |-> itemType]
    IN  [k \in DOMAIN commit.AddedList |-> item(commit.AddedList[k], fileItemTypeAdded)]
        \o [k \in DOMAIN commit.ModifiedList |->
               item(commit.ModifiedList[k], fileItemTypeModified)]

RECURSIVE githubCommits(_, _, _, _, _, _)
\* "for _, commit := range pushEvent.Commits" of the GitHub handler.
githubCommits(acc, req, env, repos, handleRepos, commits) ==
    LET commit == Head(commits)
        next(done) ==
            IF done.panicked \/ done.status # 0 THEN done
            ELSE githubCommits(done, req, env, repos, handleRepos, Tail(commits))
    IN  IF commits = <<>> THEN acc
        ELSE IF ~commit.Distinct
        THEN githubCommits(acc, req, env, repos, handleRepos, Tail(commits))
        ELSE next(githubFiles(acc, req, env, repos, handleRepos, githubFileItems(commit)))

(***************************************************************************)
(* The handlers                                                            *)
(***************************************************************************)
RECURSIVE Join(_, _)
\* strings.Join
Join(elems, sep) ==
    IF elems = <<>> THEN <<>>
    ELSE IF Len(elems) = 1 THEN Head(elems)
    ELSE Head(elems) \o sep \o Join(Tail(elems), sep)

\* What a handler leaves: the response, the store, the bindings it accepted and
\* the reconciliations it made.
Response(status, body, st, handleRepos, acc) ==
    [status |-> status, body |-> body, st |-> st,
     handleRepos |-> [k \in DOMAIN handleRepos |-> handleRepos[k].ID],
     reconciled |-> acc.reconciled, panicked |-> acc.panicked]

StartOfRequest(st) ==
    [st |-> st, createdMessageList |-> <<>>, repoID2ActivityCreateList |-> NoActivities,
     createdMessages |-> <<>>, reconciled |-> <<>>, status |-> 0, panicked |-> FALSE]

\* POST /gitlab/:id
gitlabHandler(st, req, env) ==
    LET pushEvent == req.body
        parsed == parseBranchNameFromRefs(pushEvent.Ref)
        repos == FindRepository(req.endpoint)
        handleRepos == SelectSeq(repos, LAMBDA repo : gitlabAccepts(repo, req, parsed.branch))
        start == StartOfRequest(Call(st, "FindRepository", 0))
        rejected(status, s) == Response(status, <<>>, s, <<>>, StartOfRequest(s))
        served(done) ==
            Response(200, Join(done.createdMessages, <<"\n">>), done.st, handleRepos, done)
    IN  IF pushEvent.malformed THEN rejected(400, st)
        ELSE IF pushEvent.ObjectKind # "push" THEN rejected(400, st)
        ELSE IF parsed.err THEN rejected(400, st)
        ELSE IF env.fail.op = "FindRepository" THEN rejected(500, start.st)
        ELSE IF Len(repos) = 0 THEN rejected(404, start.st)
        ELSE served(gitlabFiles(start, req, env, handleRepos,
                                dedupMigrationFilesFromCommitList(pushEvent.CommitList)))

\* Mutant: the event type is looked at after the repository lookup.
githubHandler_LookupFirst(st, req, env) ==
    LET pushEvent == req.body
        parsed == parseBranchNameFromRefs(pushEvent.Ref)
        repos == FindRepository(req.endpoint)
        handleRepos == SelectSeq(repos, LAMBDA repo : githubAccepts(repo, req, parsed.branch))
        start == StartOfRequest(Call(st, "FindRepository", 0))
        rejected(status, s) == Response(status, <<>>, s, <<>>, StartOfRequest(s))
        served(done) ==
            IF done.panicked THEN Response(500, <<>>, done.st, handleRepos, done)
            ELSE IF done.status # 0
            THEN Response(done.status, <<>>, done.st, handleRepos, done)
            ELSE Response(200, Join(done.createdMessages, <<"\n">>), done.st,
                          handleRepos, done)
    IN  IF env.fail.op = "FindRepository" THEN rejected(500, start.st)
        ELSE IF Len(repos) = 0 THEN rejected(404, start.st)
        ELSE IF req.event = "ping"
        THEN Response(200, <<"OK">>, start.st, <<>>, StartOfRequest(start.st))
        ELSE IF req.event # "push" THEN rejected(400, start.st)
        ELSE IF \/ pushEvent.malformed
                \/ \E k \in DOMAIN pushEvent.CommitList :
                      ParseRFC3339(pushEvent.CommitList[k].Timestamp).err
        THEN rejected(400, start.st)
        ELSE IF parsed.err THEN rejected(400, start.st)
        ELSE IF \E k \in DOMAIN repos :
                   /\ repos[k].BranchFilter = parsed.branch
                   /\ ~repos[k].VCS.nil
                   /\ validateGitHubWebhookSignature256(req.signature,
                          repos[k].WebhookSecretToken, req.body).err
        THEN rejected(500, start.st)
        ELSE served(githubCommits(start, req, env, repos, handleRepos, pushEvent.CommitList))

\* POST /github/:id; a commit whose timestamp is not a time makes json.Unmarshal
\* fail, as a malformed body does.
githubHandler(st, req, env) ==
    LET pushEvent == req.body
        parsed == parseBranchNameFromRefs(pushEvent.Ref)
        repos == FindRepository(req.endpoint)
        handleRepos == SelectSeq(repos, LAMBDA repo : githubAccepts(repo, req, parsed.branch))
        start == StartOfRequest(Call(st, "FindRepository", 0))
        rejected(status, s) == Response(status, <<>>, s, <<>>, StartOfRequest(s))
        served(done) ==
            IF done.panicked THEN Response(500, <<>>, done.st, handleRepos, done)
            ELSE IF done.status # 0
            THEN Response(done.status, <<>>, done.st, handleRepos, done)
            ELSE Response(200, Join(done.createdMessages, <<"\n">>), done.st,
                          handleRepos, done)
    IN  IF req.event = "ping" THEN Response(200, <<"OK">>, st, <<>>, StartOfRequest(st))
        ELSE IF req.event # "push" THEN rejected(400, st)
        ELSE IF env.fail.op = "FindRepository" THEN rejected(500, start.st)
        ELSE IF Len(repos) = 0 THEN rejected(404, start.st)
        ELSE IF \/ pushEvent.malformed
                \/ \E k \in DOMAIN pushEvent.CommitList :
                      ParseRFC3339(pushEvent.CommitList[k].Timestamp).err
        THEN rejected(400, start.st)
        ELSE IF parsed.err THEN rejected(400, start.st)
        ELSE IF \E k \in DOMAIN repos :
                   /\ repos[k].BranchFilter = parsed.branch
                   /\ ~repos[k].VCS.nil
                   /\ validateGitHubWebhookSignature256(req.signature,
                          repos[k].WebhookSecretToken, req.body).err
        THEN rejected(500, start.st)
        ELSE served(githubCommits(start, req, env, repos, handleRepos, pushEvent.CommitList))

(***************************************************************************)
(* One push delivered to a handler, and delivered again                    *)
(***************************************************************************)
InitHandler ==
    /\ tasks = <<>>
    /\ issues = <<>>
    /\ activities = <<>>
    /\ last = [called |-> FALSE]
    /\ commitList = <<>>
    /\ distinctFileList = <<>>
    /\ pc = "handler"

Store == [tasks |-> tasks, issues |-> issues, activities |-> activities, calls |-> <<>>]

Handled(provider, req, env, redelivery, r) ==
    /\ tasks' = r.st.tasks
    /\ issues' = r.st.issues
    /\ activities' = r.st.activities
    /\ last' = [called |-> TRUE, provider |-> provider, req |-> req, env |-> env,
                redelivery |-> redelivery, before |-> Store, result |-> r]
    /\ UNCHANGED <<commitList, distinctFileList, pc>>

GitLabPush ==
    /\ pc = "handler"
    /\ ~last.called
    /\ \E req \in GitLabRequests :
          \E env \in Environments(req) :
             Handled("gitlab", req, env, FALSE, gitlabHandler(Store, req, env))

GitHubPush ==
    /\ pc = "handler"
    /\ ~last.called
    /\ \E req \in GitHubRequests :
          \E env \in Environments(req) :
             Handled("github", req, env, FALSE, githubHandler(Store, req, env))

\* The provider delivers the last push once more; no dependency fails this time.
Redeliver ==
    /\ pc = "handler"
    /\ last.called
    /\ ~last.redelivery
    /\ LET env == [last.env EXCEPT !.fail = NoFailure]
       IN  Handled(last.provider, last.req, env, TRUE,
                   IF last.provider = "gitlab"
                   THEN gitlabHandler(Store, last.req, env)
                   ELSE githubHandler(Store, last.req, env))

NextHandler == GitLabPush \/ GitHubPush \/ Redeliver

SpecHandler == InitHandler /\ [][NextHandler]_vars

(***************************************************************************)
(* Handlers: the notions the statements below are made of                  *)
(***************************************************************************)
\* The bindings registered under the endpoint of the last request.
RequestBindings ==
    LET b == FindRepository(last.req.endpoint) IN {b[k] : k \in DOMAIN b}

\* The branch the last request's ref names.
PushedBranch == Tail(last.req.body.Ref)

\* The binding passes every validation check of the last request.
BindingPasses(repo) ==
    /\ repo.BranchFilter = PushedBranch
    /\ ~repo.VCS.nil
    /\ IF last.provider = "gitlab"
       THEN /\ last.req.token = repo.WebhookSecretToken
            /\ ToString(last.req.body.ProjectID) = repo.ExternalID
       ELSE /\ last.req.signature \in
                   {Signature256(repo.WebhookSecretToken, last.req.body),
                    Tail(Signature256(repo.WebhookSecretToken, last.req.body))}
            /\ last.req.body.FullName = repo.ExternalID

PassingProjects == {repo.ProjectID : repo \in {r \in RequestBindings : BindingPasses(r)}}

ProjectOfDatabase(databaseID) ==
    Databases[CHOOSE k \in DOMAIN Databases : Databases[k].ID = databaseID].ProjectID

NewIssues == (DOMAIN issues) \ (DOMAIN last.before.issues)

NewActivities == (DOMAIN activities) \ (DOMAIN last.before.activities)

ChangedTasks ==
    {k \in DOMAIN tasks : k \notin DOMAIN last.before.tasks \/ tasks[k] # last.before.tasks[k]}

\* The file events of the last request: the deduplicated files of a GitLab push,
\* the added and modified files of the distinct commits of a GitHub push.
FileEvents ==
    LET commits == last.req.body.CommitList
    IN  IF last.provider = "gitlab"
        THEN UNION {{commits[k].AddedList[i] : i \in DOMAIN commits[k].AddedList}
                    \cup {commits[k].ModifiedList[i] : i \in DOMAIN commits[k].ModifiedList} :
                    k \in DOMAIN commits}
        ELSE UNION {{commits[k].AddedList[i] : i \in DOMAIN commits[k].AddedList}
                    \cup {commits[k].ModifiedList[i] : i \in DOMAIN commits[k].ModifiedList} :
                    k \in {c \in DOMAIN commits : commits[c].Distinct}}

ReconciledPairs ==
    {<<last.result.reconciled[k].file, last.result.reconciled[k].repoID>> :
        k \in DOMAIN last.result.reconciled}

\* C4: in both handlers, createIssueFromPushEvent is invoked only for bindings
\* that passed every validation check of the request, and every new issue, every
\* changed task and every new activity belongs to the project of such a binding.
C4_OnlyValidatedBindingsReconciled ==
    (last.called /\ pc = "handler") =>
        /\ \A p \in ReconciledPairs :
              \E repo \in RequestBindings : repo.ID = p[2] /\ BindingPasses(repo)
        /\ \A j \in NewIssues : issues[j].ProjectID \in PassingProjects
        /\ \A k \in ChangedTasks : ProjectOfDatabase(tasks[k].DatabaseID) \in PassingProjects
        /\ \A a \in NewActivities : activities[a].ContainerID \in PassingProjects

\* C5: in both handlers, when createIssueFromPushEvent returned an error for one
\* file and binding, every file event of the push has still been reconciled for
\* every binding that passed validation.
C5_FailureDoesNotStopOthers ==
    (/\ last.called /\ pc = "handler"
     /\ \E k \in DOMAIN last.result.reconciled : last.result.reconciled[k].err # 0) =>
        \A file \in FileEvents :
            \A repo \in {r \in RequestBindings : BindingPasses(r)} :
                <<file, repo.ID>> \in ReconciledPairs

\* C6: the second delivery of a push creates no issue for a file and version
\* for which the project already has an issue.
C6_RedeliveryCreatesNoIssue ==
    (last.called /\ pc = "handler" /\ last.redelivery) =>
        \A j \in NewIssues :
            ~\E i \in DOMAIN last.before.issues :
                /\ issues[i].ProjectID = issues[j].ProjectID
                /\ issues[i].Name = issues[j].Name

(***************************************************************************)
(* Handlers: the order of the issues of one push                           *)
(***************************************************************************)
\* The issue rows the last request added, in the order of their creation.
IssuesOfRequest == SubSeq(issues, Len(last.before.issues) + 1, Len(issues))

\* The file of the last request an issue was created for: the issue's name ends
\* with the file's path after the base directory.
IssueFile(issue) ==
    CHOOSE f \in FileEvents :
        /\ Len(issue.Name) >= Len(f) - 2
        /\ SubSeq(issue.Name, Len(issue.Name) - (Len(f) - 2) + 1, Len(issue.Name))
               = SubSeq(f, 3, Len(f))

Position(seq, x) == CHOOSE k \in DOMAIN seq : seq[k] = x

\* C14: within one GitLab push, issues are created in the order in which their
\* files first occur in the commit list, and the response body lists the
\* created-issue messages in that order.
C14_IssuesInFileOrder ==
    (last.called /\ pc = "handler" /\ last.provider = "gitlab") =>
        LET order == FirstOccurrenceOrder(last.req.body.CommitList)
            new == IssuesOfRequest
        IN  /\ \A i, j \in DOMAIN new :
                  i < j => Position(order, IssueFile(new[i]))
                               <= Position(order, IssueFile(new[j]))
            /\ last.result.status = 200 =>
                  last.result.body
                     = Join([k \in DOMAIN new |->
                                <<"Created issue ">> \o new[k].Name \o <<" on adding ">>
                                    \o IssueFile(new[k])],
                            <<"\n">>)

\* A GitLab push whose later commit lists, after a new file, a file of its earlier
\* commit again: the issue of the file that occurred first is created first.
C14_Witness ==
    /\ last.called /\ pc = "handler" /\ last.provider = "gitlab"
    /\ Len(last.req.body.CommitList) = 2
    /\ Len(IssuesOfRequest) = 2
    /\ IssueFile(IssuesOfRequest[1]) = FileDataV1
    /\ IssueFile(IssuesOfRequest[2]) = FileMigrateV1
    /\ last.req.body.CommitList[2].AddedList = <<FileMigrateV1, FileDataV1>>

(***************************************************************************)
(* Handlers: the tasks waiting for a database and version                  *)
(***************************************************************************)
\* The tasks of a database and schema version that wait for approval or failed.
OpenTasks(databaseID, version) ==
    {k \in DOMAIN tasks :
        /\ tasks[k].DatabaseID = databaseID
        /\ tasks[k].Status \in {"PENDING_APPROVAL", "FAILED"}
        /\ tasks[k].Payload.SchemaVersion = version}

\* C15: after any sequence of pushes on a store that held no task, every database
\* and schema version has at most one task waiting for approval or failed.
C15_AtMostOneOpenTask ==
    pc = "handler" =>
        \A k \in DOMAIN tasks :
            Cardinality(OpenTasks(tasks[k].DatabaseID, tasks[k].Payload.SchemaVersion)) <= 1

(***************************************************************************)
(* Handlers: the ignored-file activities of dependency failures            *)
(***************************************************************************)
\* The last request reconciled a file for a binding, and, in that reconciliation,
\* the fetch of the file content or the schema dump of a database failed.
DependencyFailureMet ==
    /\ last.called /\ pc = "handler"
    /\ last.env.fail.op \in {"ReadFileContent", "Dump"}
    /\ <<last.env.fail.file, last.env.fail.repoID>> \in ReconciledPairs

\* The ignored-file activities the last request persisted for a file and project.
IgnoredFileActivities(file, projectID) ==
    {a \in NewActivities :
        /\ activities[a].Level = "WARN"
        /\ activities[a].ContainerID = projectID
        /\ activities[a].Comment.subject = file}

ProjectOfRepository(repoID) ==
    (CHOOSE repo \in RequestBindings : repo.ID = repoID).ProjectID

\* C16: a dependency failure met while a file is reconciled for a binding leaves a
\* persisted ignored-file activity for that file in the binding's project, also
\* when an issue was created for the same file.
C16_FailureLeavesActivity ==
    DependencyFailureMet =>
        IgnoredFileActivities(last.env.fail.file,
                              ProjectOfRepository(last.env.fail.repoID)) # {}

(***************************************************************************)
(* SpecFind: findProjectDatabases applied to a project, a database name    *)
(* and an environment name                                                 *)
(***************************************************************************)
ProjectIDs == 1..5

DatabaseNames == {<<"orders">>, <<"users">>, <<"stock">>}

EnvironmentNames == {<<>>, <<"dev">>, <<"Dev">>, <<"prod">>, <<"PROD">>, <<"staging">>}

InitFind ==
    /\ \E projectID \in ProjectIDs, dbName \in DatabaseNames, envName \in EnvironmentNames,
          tenantMode \in {TenantModeDisabled, TenantModeTenant}, failing \in BOOLEAN :
          last = [called |-> FALSE, projectID |-> projectID, dbName |-> dbName,
                  envName |-> envName, tenantMode |-> tenantMode, failing |-> failing,
                  err |-> "", databases |-> <<>>]
    /\ tasks = <<>>
    /\ issues = <<>>
    /\ activities = <<>>
    /\ commitList = <<>>
    /\ distinctFileList = <<>>
    /\ pc = "find"

FindReturned(r) ==
    /\ last' = [last EXCEPT !.called = TRUE, !.err = r.err, !.databases = r.databases]
    /\ pc' = "found"
    /\ UNCHANGED <<commitList, distinctFileList, storeVars>>

Find ==
    /\ pc = "find"
    /\ FindReturned(findProjectDatabases(
            [tasks |-> tasks, issues |-> issues, activities |-> activities, calls |-> <<>>],
            [fail |-> IF last.failing THEN [op |-> "FindDatabase", db |-> 0] ELSE NoFail],
            last.projectID, last.tenantMode, last.dbName, last.envName))

NextFind == Find

SpecFind == InitFind /\ [][NextFind]_vars

\* The spellings of the environment names, one set per name.
Spellings ==
    {{<<"dev">>, <<"Dev">>, <<"DEV">>}, {<<"prod">>, <<"Prod">>, <<"PROD">>}, {<<"staging">>}}

SameEnvironmentName(a, b) == \E c \in Spellings : a \in c /\ b \in c

\* The database rows (by position) of the project and name asked for, of the
\* environment asked for when one is.
Wanted ==
    {k \in DOMAIN Databases :
        /\ Databases[k].ProjectID = last.projectID
        /\ Databases[k].Name = last.dbName
        /\ last.envName = <<>>
              \/ SameEnvironmentName(Databases[k].Instance.Environment.Name, last.envName)}

\* C17: without tenant mode, findProjectDatabases returns an error and no
\* database, or it returns exactly the databases of the project with the given
\* name and, when envName is not empty, the given environment name up to case;
\* it returns them only when there is at least one and no two of them are of the
\* same environment.
C17_FindProjectDatabases ==
    (pc = "found" /\ last.tenantMode = TenantModeDisabled) =>
        /\ last.err # "" => last.databases = <<>>
        /\ last.err = "" =>
              /\ {last.databases[i] : i \in DOMAIN last.databases}
                    = {Databases[k] : k \in Wanted}
              /\ Len(last.databases) = Cardinality(Wanted)
              /\ Wanted # {}
              /\ \A k, l \in Wanted :
                    k # l => Databases[k].Instance.EnvironmentID
                                # Databases[l].Instance.EnvironmentID

\* The one database of environment "Prod" returned for the name "orders" and the
\* environment name "prod", out of the two databases of that name.
C17_Witness ==
    /\ pc = "found" /\ last.tenantMode = TenantModeDisabled
    /\ last.projectID = 1 /\ last.dbName = <<"orders">> /\ last.envName = <<"prod">>
    /\ last.err = ""
    /\ Len(last.databases) = 1
    /\ last.databases[1].Instance.Environment.Name = <<"Prod">>

(***************************************************************************)
(* The push event of one reconciliation                                    *)
(***************************************************************************)
\* C18: the push event built for one file and binding has, when
\* createIssueFromPushEvent returns and in the payloads of the issue and of the
\* activities made from it, the value it was constructed with.
C18_PushEventUnchanged ==
    (pc = "reconcile" /\ last.called) =>
        /\ last.result.pushEvent = last.in.pushEvent
        /\ \A i \in DOMAIN CreatedIssues :
              CreatedIssues[i].CreateContext.VCSPushEvent = last.in.pushEvent
        /\ \A a \in (DOMAIN activities) \ (DOMAIN last.before.activities) :
              activities[a].Payload.VCSPushEvent = last.in.pushEvent
        /\ \A k \in DOMAIN last.result.activityCreateList :
              last.result.activityCreateList[k].Payload.VCSPushEvent = last.in.pushEvent

(***************************************************************************)
(* The administrative connections of computeDatabaseSchemaDiff             *)
(***************************************************************************)
\* The dependency calls of the last reconciliation, in the order they were made.
CallsMade == last.result.st.calls

\* The positions at which a connection was acquired: getAdminDatabaseDriver was
\* called and did not fail.
Acquired ==
    {k \in DOMAIN CallsMade :
        /\ CallsMade[k].op = "getAdminDatabaseDriver"
        /\ last.in.fail # CallsMade[k]}

\* The connection acquired at position k is closed at position j, and between the
\* two only the steps of the diff of that database were made.
ClosedAt(k, j) ==
    /\ j > k
    /\ CallsMade[j] = [op |-> "Close", db |-> CallsMade[k].db]
    /\ \A i \in (k + 1)..(j - 1) :
          /\ CallsMade[i].db = CallsMade[k].db
          /\ CallsMade[i].op \in {"Dump", "ParseOld", "ParseNew", "SchemaDiff"}

\* C19: every connection computeDatabaseSchemaDiff acquired is closed before the
\* function returns, on every exit path, and a connection is closed only after it
\* was acquired.
C19_ConnectionsClosed ==
    (pc = "reconcile" /\ last.called) =>
        /\ \A k \in Acquired : \E j \in DOMAIN CallsMade : ClosedAt(k, j)
        /\ \A j \in DOMAIN CallsMade :
              CallsMade[j].op = "Close" => \E k \in Acquired : ClosedAt(k, j)

\* The exit paths: a failure of the dump, of the parse of the old or of the new
\* schema, of the diff, an unsupported engine, and a computed diff, each with the
\* connection closed.
ExitPathClosed(op, db) ==
    /\ pc = "reconcile" /\ last.called
    /\ last.in.fail = [op |-> op, db |-> db]
    /\ \E k \in Acquired : CallsMade[k].db = db /\ \E j \in DOMAIN CallsMade : ClosedAt(k, j)

C19_Witness ==
    /\ ExitPathClosed("ParseNew", 5)
    /\ \E k \in Acquired : CallsMade[k].db = 6 /\ ClosedAt(k, k + 2)

(***************************************************************************)
(* The event types of the GitHub handler                                   *)
(***************************************************************************)
\* The last request was a GitHub request whose event type is not push.
NotAPush == last.called /\ pc = "handler" /\ last.provider = "github" /\ last.req.event # "push"

\* C20: the GitHub handler answers a ping with 200 "OK" and any other event type
\* but push with 400, in both cases without a repository lookup, without looking
\* at the body, without a reconciliation and without a change of the store.
C20_PingAndOtherEvents ==
    NotAPush =>
        /\ last.result.status = (IF last.req.event = "ping" THEN 200 ELSE 400)
        /\ last.req.event = "ping" => last.result.body = <<"OK">>
        /\ last.result.st.calls = <<>>
        /\ last.result.reconciled = <<>>
        /\ tasks = last.before.tasks
        /\ issues = last.before.issues
        /\ activities = last.before.activities

\* A ping to an endpoint without bindings, with a malformed body, while the
\* repository lookup would fail, answered 200.
C20_Witness ==
    /\ NotAPush
    /\ last.req.event = "ping"
    /\ last.req.body.malformed
    /\ FindRepository(last.req.endpoint) = <<>>
    /\ last.env.fail.op = "FindRepository"
    /\ last.result.status = 200

(***************************************************************************)
(* Handlers: the ref of a push                                             *)
(***************************************************************************)
\* The ref of the last request names a branch: it starts with refs/heads/ and
\* something follows.
HeadsRef == Len(last.req.body.Ref) > 1 /\ Head(last.req.body.Ref) = "refs/heads/"

\* The handler of the last request came to parse the ref: every check the
\* handler makes before passed.
RefParsed ==
    IF last.provider = "gitlab"
    THEN ~last.req.body.malformed /\ last.req.body.ObjectKind = "push"
    ELSE /\ last.req.event = "push"
         /\ last.env.fail.op # "FindRepository"
         /\ RequestBindings # {}
         /\ ~last.req.body.malformed
         /\ \A k \in DOMAIN last.req.body.CommitList :
               ~ParseRFC3339(last.req.body.CommitList[k].Timestamp).err

\* C21: parseBranchNameFromRefs returns the text after refs/heads/ and no error
\* exactly when the ref starts with refs/heads/ and is longer than it; for any
\* other ref it returns an error, and a handler that parsed such a ref answers
\* 400, reconciles no file and changes no issue, task or activity.
C21_BranchParsedOrRejected ==
    (last.called /\ pc = "handler") =>
        LET parsed == parseBranchNameFromRefs(last.req.body.Ref)
        IN  /\ parsed.err <=> ~HeadsRef
            /\ ~parsed.err => parsed.branch = Tail(last.req.body.Ref)
            /\ (RefParsed /\ ~HeadsRef) =>
                   /\ last.result.status = 400
                   /\ last.result.reconciled = <<>>
                   /\ NewIssues = {} /\ NewActivities = {} /\ ChangedTasks = {}

\* The GitHub handler parsed a tags ref and answered 400.
C21_Witness ==
    /\ last.called /\ pc = "handler"
    /\ last.provider = "github"
    /\ RefParsed
    /\ last.req.body.Ref = <<"refs/tags/", "v1">>
    /\ last.result.status = 400

(***************************************************************************)
(* SpecParse: parseSchemaFileInfo applied to a base directory, a schema    *)
(* path template and a file path                                           *)
(***************************************************************************)
SchemaPathTemplates ==
    {<<>>, SchemaPathTemplate, <<"{{ENV_NAME}}", "/", "{{DB_NAME}}", "/", "schema", ".", "sql">>}

\* Paths of schema files under a base directory, and paths that lack the last
\* segment of a template.
PathCores ==
    {<<"bytebase", "/", "orders", "__", "LATEST", ".", "sql">>,
     <<"migrations", "/", "prod", "/", "orders", "/", "schema", ".", "sql">>,
     <<"migrations", "/", "prod", "/", "orders", "/">>,
     <<"bytebase", "/", "orders", "__", "LATEST">>}

InitParse ==
    /\ \E baseDirectory \in {<<>>, <<"bytebase">>, <<"migrations">>},
          schemaPathTemplate \in SchemaPathTemplates, core \in PathCores,
          before \in SeqsUpTo({"old", "/", "."}, MaxExtra),
          after \in SeqsUpTo({"bak", "/", "."}, MaxExtra) :
          last = [called |-> FALSE, baseDirectory |-> baseDirectory,
                  schemaPathTemplate |-> schemaPathTemplate,
                  file |-> before \o core \o after,
                  info |-> [nil |-> TRUE, err |-> FALSE, ENV_NAME |-> <<>>,
                            DB_NAME |-> <<>>]]
    /\ tasks = <<>>
    /\ issues = <<>>
    /\ activities = <<>>
    /\ commitList = <<>>
    /\ distinctFileList = <<>>
    /\ pc = "parse"

Parse ==
    /\ pc = "parse"
    /\ last' = [last EXCEPT
                   !.called = TRUE,
                   !.info = parseSchemaFileInfo(last.baseDirectory, last.schemaPathTemplate,
                                                last.file)]
    /\ pc' = "parsed"
    /\ UNCHANGED <<commitList, distinctFileList, storeVars>>

NextParse == Parse

SpecParse == InitParse /\ [][NextParse]_vars

\* The tokens a placeholder's group may hold.
ClassToken(tok) == tok \notin {"\n", "\r", "@", "~", "(", ")"}

\* The path s, from its token i to its last token, is an instance of the pattern:
\* each literal token of the pattern is that token of the path, and each
\* placeholder stands for one or more tokens of the class.
RECURSIVE InstanceFrom(_, _, _)
InstanceFrom(pattern, s, i) ==
    IF pattern = <<>> THEN i = Len(s) + 1
    ELSE IF i > Len(s) THEN FALSE
    ELSE IF Head(pattern) \in {Placeholder("ENV_NAME"), Placeholder("DB_NAME")}
    THEN \E n \in 1..(Len(s) - i + 1) :
            /\ \A k \in i..(i + n - 1) : ClassToken(s[k])
            /\ InstanceFrom(Tail(pattern), s, i + n)
    ELSE s[i] = Head(pattern) /\ InstanceFrom(Tail(pattern), s, i + 1)

\* The whole path given to parseSchemaFileInfo is base directory + "/" + template.
WholePathMatches ==
    InstanceFrom(PathJoin(last.baseDirectory, last.schemaPathTemplate), last.file, 1)

\* C22: parseSchemaFileInfo returns a match only when the whole path, from its
\* first to its last character, is base directory + "/" + template: extra
\* characters after the last segment or before the base directory, or a missing
\* last segment, give no match.
C22_OnlyWholePathMatches ==
    (pc = "parsed" /\ ~last.info.nil) => WholePathMatches

(***************************************************************************)
(* Files out of the scope of a binding                                     *)
(***************************************************************************)
\* The file of the last reconciliation lies in the base directory of the binding
\* or in a directory below it.
UnderBaseDirectory ==
    HasPrefix(last.in.file, last.in.repo.BaseDirectory \o <<"/">>)

\* The last reconciliation came to look at the file: the project is not a
\* tenant-mode project without the multi-tenancy feature.
FileLookedAt ==
    /\ last.called /\ pc = "reconcile"
    /\ ~(last.in.repo.Project.TenantMode = TenantModeTenant /\ ~last.in.feature)

\* The last reconciliation left the store as it was, asked for no file content
\* and returned neither an issue nor an activity nor an error.
NothingDone ==
    /\ \A k \in DOMAIN CallsMade : CallsMade[k].op # "ReadFileContent"
    /\ issues = last.before.issues
    /\ tasks = last.before.tasks
    /\ activities = last.before.activities
    /\ ~last.result.created
    /\ last.result.activityCreateList = <<>>
    /\ last.result.err = 0

\* C23: the reconciliation of a file that does not lie under the base directory
\* of the binding, as a directory, fetches no content, creates no issue, patches
\* no task, returns no activity and returns no error.
C23_OutOfScopeFileIgnored ==
    (FileLookedAt /\ ~UnderBaseDirectory) => NothingDone

\* The schema path template of the last binding matches the last file.
SchemaFileMatched ==
    LET info == parseSchemaFileInfo(last.in.repo.BaseDirectory,
                                    last.in.repo.SchemaPathTemplate, last.in.file)
    IN  ~info.nil /\ ~info.err

\* C24: in a project whose schema-change mode is DDL, the reconciliation of a file
\* that matches the schema path template fetches no content, creates no issue,
\* patches no task and returns no activity, so that none is persisted for it.
C24_SchemaFileIgnoredInDDL ==
    (/\ FileLookedAt
     /\ last.in.repo.Project.SchemaChangeType = ProjectSchemaChangeTypeDDL
     /\ SchemaFileMatched) => NothingDone

\* The schema file of database orders pushed to the DDL project, which holds
\* databases of that name.
C24_Witness ==
    /\ FileLookedAt
    /\ last.in.repo = RepoDDL
    /\ last.in.file = FileSchema
    /\ SchemaFileMatched
    /\ last.result.route = "schema file in DDL project"
    /\ NothingDone

(***************************************************************************)
(* Schema migration scripts in an SDL project                              *)
(***************************************************************************)
\* The last file is a migration script: its path under the base directory is
\* made as the file path template of the binding says.
MigrationParsed ==
    ~ParseMigrationInfo(last.in.file,
         PathJoin(last.in.repo.BaseDirectory, last.in.repo.FilePathTemplate)).err

\* The last reconciliation was that of a file of the base directory of an SDL
\* project that is not a schema file and is a migration script of a type other
\* than data.
SchemaMigrationInSDL ==
    /\ FileLookedAt
    /\ UnderBaseDirectory
    /\ last.in.repo.Project.SchemaChangeType = ProjectSchemaChangeTypeSDL
    /\ ~SchemaFileMatched
    /\ MigrationParsed
    /\ ParsedType # Data

\* C25: in an SDL project, a file that does not match the schema path template
\* and whose parsed migration type is not data leads to no issue and no task
\* patch; its reconciliation returns exactly one ignored-file activity, and
\* neither fetches the file content nor resolves databases.
C25_SchemaMigrationInSDLIgnored ==
    SchemaMigrationInSDL =>
        /\ ~last.result.created
        /\ last.result.err = 0
        /\ issues = last.before.issues
        /\ tasks = last.before.tasks
        /\ activities = last.before.activities
        /\ Len(last.result.activityCreateList) = 1
        /\ last.result.activityCreateList[1].Level = ActivityWarn
        /\ last.result.activityCreateList[1].ContainerID = last.in.repo.ProjectID
        /\ last.result.activityCreateList[1].Comment.subject = last.in.file
        /\ \A k \in DOMAIN CallsMade :
              CallsMade[k].op \notin {"ReadFileContent", "FindDatabase"}

\* The migrate script of version v1 pushed to the SDL project.
C25_Witness ==
    /\ SchemaMigrationInSDL
    /\ last.in.repo = RepoSDL
    /\ last.in.file = FileMigrateV1
    /\ Len(last.result.activityCreateList) = 1
    /\ CallsMade = <<>>

(***************************************************************************)
(* GitHub: the file events of a push                                       *)
(***************************************************************************)
\* The paths of a commit with their kinds: the added paths in the order of the
\* payload, then the modified paths.
PathsOfCommit(commit) ==
    LET na == Len(commit.AddedList)
    IN  [i \in 1..(na + Len(commit.ModifiedList)) |->
            IF i <= na THEN [file |-> commit.AddedList[i], itemType |-> "added"]
            ELSE [file |-> commit.ModifiedList[i - na], itemType |-> "modified"]]

\* The reconciliations a GitHub push asks for: commit after commit, leaving out
\* the commits that are not distinct, path after path within a commit, and for
\* each path one reconciliation per binding of the endpoint, each with the id,
\* the message, the time and the author of the commit the path is listed in.
ExpectedOfPush ==
    LET commits == last.req.body.CommitList
        repos == FindRepository(last.req.endpoint)
        ofPath(commit, path) ==
            [r \in DOMAIN repos |->
                [file |-> path.file, itemType |-> path.itemType, repoID |-> repos[r].ID,
                 commit |-> [ID |-> commit.ID, Message |-> commit.Message,
                             CreatedTs |-> ParseRFC3339(commit.Timestamp).t,
                             AuthorEmail |-> commit.AuthorEmail]]]
        ofCommit(commit) ==
            IF ~commit.Distinct THEN <<>>
            ELSE Flatten([i \in DOMAIN PathsOfCommit(commit) |->
                             ofPath(commit, PathsOfCommit(commit)[i])])
    IN  Flatten([k \in DOMAIN commits |-> ofCommit(commits[k])])

\* The reconciliations the last request made, without their outcomes.
ReconciledOfPush ==
    [k \in DOMAIN last.result.reconciled |->
        [file |-> last.result.reconciled[k].file,
         itemType |-> last.result.reconciled[k].itemType,
         repoID |-> last.result.reconciled[k].repoID,
         commit |-> last.result.reconciled[k].commit]]

\* C26: in the GitHub handler the files of a commit that is not distinct are
\* never reconciled, and the files of the distinct commits are reconciled in
\* commit order, added paths before modified paths, each with the metadata of
\* its own commit and without merging across commits: the reconciliations made
\* are the first of those the push asks for, and all of them when the push is
\* answered with 200.
C26_GitHubFilesPerCommit ==
    (last.called /\ pc = "handler" /\ last.provider = "github") =>
        /\ Len(ReconciledOfPush) <= Len(ExpectedOfPush)
        /\ ReconciledOfPush = SubSeq(ExpectedOfPush, 1, Len(ReconciledOfPush))
        /\ (RefParsed /\ HeadsRef /\ last.result.status = 200) =>
               ReconciledOfPush = ExpectedOfPush

\* A path added in one distinct commit and modified in the next one is
\* reconciled twice for the same binding, once with each commit.
C26_Witness ==
    /\ last.called /\ pc = "handler" /\ last.provider = "github"
    /\ last.result.status = 200
    /\ \E j, k \in DOMAIN ReconciledOfPush :
          /\ j < k
          /\ ReconciledOfPush[j].file = ReconciledOfPush[k].file
          /\ ReconciledOfPush[j].repoID = ReconciledOfPush[k].repoID
          /\ ReconciledOfPush[j].itemType = "added" /\ ReconciledOfPush[j].commit.ID = "c1"
          /\ ReconciledOfPush[k].itemType = "modified" /\ ReconciledOfPush[k].commit.ID = "c2"

(***************************************************************************)
(* GitLab: a path added in one commit and modified in a later one          *)
(***************************************************************************)
\* A commit of the last push adds the path and a commit with a strictly later
\* timestamp modifies it.
AddedThenModified(path) ==
    LET commits == last.req.body.CommitList
        lists(names) == {names[i] : i \in DOMAIN names}
    IN  \E i, j \in DOMAIN commits :
            /\ path \in lists(commits[i].AddedList)
            /\ path \in lists(commits[j].ModifiedList)
            /\ ~ParseRFC3339(commits[i].Timestamp).err
            /\ ~ParseRFC3339(commits[j].Timestamp).err
            /\ ParseRFC3339(commits[i].Timestamp).t < ParseRFC3339(commits[j].Timestamp).t

\* The reconciliations of a path for a binding in the last request.
ReconciliationsOf(path, repoID) ==
    {k \in DOMAIN last.result.reconciled :
        /\ last.result.reconciled[k].file = path
        /\ last.result.reconciled[k].repoID = repoID}

\* The GitLab handler came to reconcile the files of the last push.
GitLabServed ==
    /\ last.called /\ pc = "handler"
    /\ last.provider = "gitlab"
    /\ last.result.status = 200

ParsedDatabase ==
    ParseMigrationInfo(last.in.file,
        PathJoin(last.in.repo.BaseDirectory, last.in.repo.FilePathTemplate)).info.Database

\* The last reconciliation was that of a modified migration script of a
\* tenant-mode project with the multi-tenancy feature.
TenantModified ==
    /\ FileLookedAt
    /\ last.in.repo.Project.TenantMode = TenantModeTenant
    /\ last.in.fileType = fileItemTypeModified
    /\ last.result.route = "DDL"

\* C28: in a tenant-mode project the reconciliation of a modified migration
\* script is that of the same file as an added one; no task is searched or
\* patched, and when no dependency fails one issue is created whose one
\* MigrationDetail holds the parsed database name, the file content and the
\* parsed version.
C28_TenantModifiedAsAdded ==
    TenantModified =>
        /\ last.result
              = createIssueFromPushEvent(last.before,
                                         [last.in EXCEPT !.fileType = fileItemTypeAdded])
        /\ \A k \in DOMAIN CallsMade : CallsMade[k].op \notin {"FindTask", "patchTask"}
        /\ \A k \in DOMAIN last.before.tasks : tasks[k] = last.before.tasks[k]
        /\ last.in.fail = NoFail =>
              /\ last.result.created
              /\ Len(CreatedIssues) = 1
              /\ CreatedIssues[1].CreateContext.DetailList
                    = << [DatabaseID |-> 0, DatabaseName |-> ParsedDatabase,
                          Statement |-> last.in.content, SchemaVersion |-> ParsedVersion] >>

\* A modified migrate script of version v1 of the tenant-mode project, whose
\* database holds a task of that version waiting for approval: an issue is
\* created and the task keeps its statement.
C28_Witness ==
    /\ TenantModified
    /\ last.in.file = FileMigrateV1
    /\ last.in.fail = NoFail
    /\ last.result.created
    /\ Len(CreatedIssues) = 1
    /\ \E k \in DOMAIN last.before.tasks :
          /\ last.before.tasks[k].DatabaseID = 7
          /\ last.before.tasks[k].Status = TaskPendingApproval
          /\ last.before.tasks[k].Payload.SchemaVersion = <<"v1">>
          /\ tasks[k].Payload.Statement = OldStatement

(***************************************************************************)
(* Handlers: the ignored-file activities of a file event                   *)
(***************************************************************************)
\* The last request added the activity to the store.
Persisted(activityCreate) == \E a \in NewActivities : activities[a] = activityCreate

\* A reconciliation of the file event of the k-th reconciliation of the last
\* request, the path in its commit, created an issue.
IssueCreatedForEvent(k) ==
    \E j \in DOMAIN last.result.reconciled :
        /\ last.result.reconciled[j].file = last.result.reconciled[k].file
        /\ last.result.reconciled[j].commit.ID = last.result.reconciled[k].commit.ID
        /\ last.result.reconciled[j].created

\* The k-th reconciliation of the last request was made for a binding that
\* passed the validation of the request.
ForValidatedBinding(k) ==
    \E repo \in RequestBindings :
        repo.ID = last.result.reconciled[k].repoID /\ BindingPasses(repo)

\* C29: the ignored-file activities returned by the reconciliations of a file
\* event are persisted if and only if no binding created an issue for that file
\* event; those returned together with an error, and those of a binding that
\* did not pass validation, are never persisted.
C29_IgnoredActivitiesPersisted ==
    (last.called /\ pc = "handler") =>
        \A k \in DOMAIN last.result.reconciled :
            \A i \in DOMAIN last.result.reconciled[k].activityCreateList :
                IF last.result.reconciled[k].err # 0 \/ ~ForValidatedBinding(k)
                THEN ~Persisted(last.result.reconciled[k].activityCreateList[i])
                ELSE Persisted(last.result.reconciled[k].activityCreateList[i])
                        <=> ~IssueCreatedForEvent(k)

====
